---- MODULE Spec2Model ----
(***************************************************************************)
(* Course advisor: one CourseAdvisorSystem session holding the curriculum, *)
(* the completed courses, the available courses and the student info, and  *)
(* the recommendation engine that reads them.                              *)
(*                                                                         *)
(* JavaScript strings that the code takes apart (course codes, grades) are *)
(* sequences of one-character strings; strings that are only built and     *)
(* compared (titles, categories, reasons) are TLA+ strings.                *)
(***************************************************************************)
EXTENDS Integers, Sequences, FiniteSets, TLC

VARIABLES curriculum, completedCourses, availableCourses, studentInfo, pc, call,
          parsedDataFile, otherSession, savedSession

\* What lives outside the session in hand: the file data/parsed_data.json,
\* the session of a second request served at the same time, and (history)
\* the collections of the session that wrote the file last.
serverVars == <<parsedDataFile, otherSession, savedSession>>

vars == <<curriculum, completedCourses, availableCourses, studentInfo, pc, call,
          parsedDataFile, otherSession, savedSession>>

(***************************************************************************)
(* Bounds of the model.                                                    *)
(***************************************************************************)
MaxCurriculum == 2
MaxRows == 2
MaxAvailable == 2

(***************************************************************************)
(* Strings as character sequences.                                         *)
(***************************************************************************)
UpperLetters ==
  {"A", "B", "C", "D", "E", "F", "G", "H", "I", "J", "K", "L", "M",
   "N", "O", "P", "Q", "R", "S", "T", "U", "V", "W", "X", "Y", "Z"}

CS101 == <<"C", "S", "1", "0", "1">>
CS102 == <<"C", "S", "1", "0", "2">>
PHYS121 == <<"P", "H", "Y", "S", "1", "2", "1">>
PHYS121F == <<"P", "H", "Y", "S", "1", "2", "1", "F">>

\* String.prototype.includes / Array.prototype.includes on a character
\* sequence: sub occurs in s as a contiguous run.
StrIncludes(s, sub) ==
  \E i \in 1..(Len(s) - Len(sub) + 1) : SubSeq(s, i, i + Len(sub) - 1) = sub

\* Array.prototype.includes: x is an element of the array.
ArrIncludes(arr, x) == \E i \in 1..Len(arr) : arr[i] = x

\* All sequences over S of length at most n.
SeqUpTo(S, n) == UNION {[1..k -> S] : k \in 0..n}

(***************************************************************************)
(* Map (insertion-ordered, unique keys) as a sequence of <<key, value>>.   *)
(***************************************************************************)
EmptyMap == << >>

MapHas(m, k) == \E i \in 1..Len(m) : m[i][1] = k

MapGet(m, k) == m[CHOOSE i \in 1..Len(m) : m[i][1] = k][2]

\* Variant: a key that is there keeps its value.
MapSetKeepsFirst(m, k, v) ==
  IF MapHas(m, k) THEN m ELSE Append(m, <<k, v>>)

\* Map.prototype.set: an existing key keeps its position and takes the new
\* value, a new key is appended.
MapSet(m, k, v) ==
  IF MapHas(m, k)
  THEN [i \in 1..Len(m) |-> IF m[i][1] = k THEN <<k, v>> ELSE m[i]]
  ELSE Append(m, <<k, v>>)

\* Array.from(map.values())
MapValues(m) == [i \in 1..Len(m) |-> m[i][2]]

(***************************************************************************)
(* Grade evaluator.                                                        *)
(***************************************************************************)
failingGrades == {<<"F">>, <<"F", "*">>, <<"F", "F">>, <<"F", "D">>, <<"W">>}

retakeIndicators == {<<"(", "r", "s", "t", ")">>}

\* Variant: the retake marker is not looked for.
isPassingGradeByTokenOnly(grade) == grade \notin failingGrades

isPassingGrade(grade) ==
  IF grade \in failingGrades THEN FALSE
  ELSE IF \E indicator \in retakeIndicators : StrIncludes(grade, indicator)
       THEN FALSE
       ELSE TRUE

(***************************************************************************)
(* Inputs: the course lines a curriculum document can hold, the rows of a  *)
(* transcript sheet, the entries of an available-courses document.         *)
(***************************************************************************)
Course(semester, code, title, category, prerequisites) ==
  [semester |-> semester, code |-> code, title |-> title,
   category |-> category, lecture |-> 3, tutorial |-> 1, lab |-> 2,
   totalCredit |-> 6, prerequisites |-> prerequisites, ects |-> 6]

CurriculumLines ==
  { Course(1, CS101, "Introduction to Computer Science", "AC", << >>),
    Course(1, CS101, "Introduction to Computer Science", "AC", <<CS101>>),
    Course(2, CS102, "Data Structures", "AC", <<CS101>>),
    Course(2, CS102, "Data Structures", "UE", <<CS101>>),
    Course(9, CS102, "Data Structures", "UE", << >>),
    Course(9, CS102, "Data Structures", "FC", << >>),
    Course(1, PHYS121, "Physics I", "UC", << >>),
    Course(3, PHYS121, "Physics I", "FC", << >>) }

Row(code, title, grade, credits) ==
  [Code |-> code, Title |-> title, Grade |-> grade, Credits |-> credits]

TranscriptRows ==
  { Row(CS101, "Introduction to Computer Science", <<"A">>, 6),
    Row(CS101, "Introduction to Computer Science", <<"F">>, 60),
    Row(CS101, "Introduction to Computer Science", <<"B", "+">>, 60),
    Row(PHYS121F, "Physics I", <<"A">>, 160) }

AvailableLines ==
  { [code |-> CS101, title |-> "Introduction to Computer Science"],
    [code |-> CS102, title |-> "Data Structures"],
    [code |-> PHYS121, title |-> "Physics I"] }

(***************************************************************************)
(* The session after construction.                                         *)
(***************************************************************************)
NoCall == [op |-> "none"]

\* No data/parsed_data.json yet.
NoFile == [exists |-> FALSE]

\* The collections a constructor leaves.
emptySession ==
  [curriculum |-> << >>, completedCourses |-> EmptyMap,
   availableCourses |-> << >>, studentInfo |-> << >>]

\* The second request: not received yet.
idleSession ==
  [pc |-> "idle", curriculum |-> << >>, completedCourses |-> EmptyMap,
   availableCourses |-> << >>, studentInfo |-> << >>, response |-> NoCall]

Init ==
  /\ curriculum = << >>
  /\ completedCourses = EmptyMap
  /\ availableCourses = << >>
  /\ studentInfo = << >>
  /\ pc = "constructed"
  /\ call = NoCall
  /\ parsedDataFile = NoFile
  /\ otherSession = idleSession
  /\ savedSession = emptySession

\* new CourseAdvisorSystem(): every request works on a fresh session.
NewSession ==
  /\ pc = "returned"
  /\ curriculum' = << >>
  /\ completedCourses' = EmptyMap
  /\ availableCourses' = << >>
  /\ studentInfo' = << >>
  /\ pc' = "constructed"
  /\ call' = NoCall
  /\ UNCHANGED serverVars

(***************************************************************************)
(* The three parse steps, in the order processDocuments runs them.         *)
(***************************************************************************)
\* The curriculum is replaced by the courses extracted, in line order.
ParseCurriculum ==
  /\ pc = "constructed"
  /\ \E lines \in SeqUpTo(CurriculumLines, MaxCurriculum) :
       curriculum' = lines
  /\ pc' = "curriculumParsed"
  /\ call' = [op |-> "parseCurriculum"]
  /\ UNCHANGED <<completedCourses, availableCourses, studentInfo>>
  /\ UNCHANGED serverVars

\* Row mode: one CompletedCourse per row that has a code and a grade.
CompletedCourse(row) ==
  [code |-> row.Code, title |-> row.Title, grade |-> row.Grade,
   credits |-> row.Credits, ects |-> 0, gradePoints |-> 0, semester |-> "",
   passed |-> isPassingGrade(row.Grade)]

RECURSIVE SetRows(_, _)
SetRows(m, rows) ==
  IF rows = << >> THEN m
  ELSE SetRows(MapSet(m, Head(rows).Code, CompletedCourse(Head(rows))),
               Tail(rows))

ParseTranscript ==
  /\ pc = "curriculumParsed"
  /\ \E rows \in SeqUpTo(TranscriptRows, MaxRows) :
       completedCourses' = SetRows(EmptyMap, rows)
  /\ studentInfo' = << >>
  /\ pc' = "transcriptParsed"
  /\ call' = [op |-> "parseTranscript"]
  /\ UNCHANGED <<curriculum, availableCourses>>
  /\ UNCHANGED serverVars

ParseAvailableCourses ==
  /\ pc = "transcriptParsed"
  /\ \E lines \in SeqUpTo(AvailableLines, MaxAvailable) :
       availableCourses' = lines
  /\ pc' = "availableParsed"
  /\ call' = [op |-> "parseAvailableCourses"]
  /\ UNCHANGED <<curriculum, completedCourses, studentInfo>>
  /\ UNCHANGED serverVars

(***************************************************************************)
(* Recommendation engine.                                                  *)
(***************************************************************************)
\* Variant: a prerequisite counts as soon as it is a key of completedCourses.
everyPresent(prereqs) ==
  \A i \in 1..Len(prereqs) : MapHas(completedCourses, prereqs[i])

\* Array.prototype.every over the prerequisite list, left to right.
RECURSIVE everyPassed(_)
everyPassed(prereqs) ==
  IF prereqs = << >> THEN TRUE
  ELSE IF ~MapHas(completedCourses, Head(prereqs)) THEN FALSE
  ELSE IF ~MapGet(completedCourses, Head(prereqs)).passed THEN FALSE
  ELSE everyPassed(Tail(prereqs))

arePrerequisitesMet(course) ==
  IF "prerequisites" \notin DOMAIN course \/ Len(course.prerequisites) = 0
  THEN TRUE
  ELSE everyPassed(course.prerequisites)

\* Array.prototype.reduce((sum, course) => sum + course.credits, 0)
RECURSIVE sumCredits(_)
sumCredits(courses) ==
  IF courses = << >> THEN 0
  ELSE Head(courses).credits + sumCredits(Tail(courses))

\* Variant: the credits of failed records are counted too.
getCurrentSemesterAllRecords ==
  (sumCredits(MapValues(completedCourses)) \div 20) + 1

getCurrentSemester ==
  LET passing == SelectSeq(MapValues(completedCourses), LAMBDA c : c.passed)
      totalCredits == sumCredits(passing)
  IN (totalCredits \div 20) + 1

\* Variant: the trailing letter is kept.
baseCodeKept(code) == code

\* code.replace(/[A-Z]$/, ""): one trailing uppercase letter is removed.
baseCodeOf(code) ==
  IF Len(code) > 0 /\ code[Len(code)] \in UpperLetters
  THEN SubSeq(code, 1, Len(code) - 1)
  ELSE code

completedCourseCodes ==
  {completedCourses[i][1] : i \in {j \in 1..Len(completedCourses) :
                                      completedCourses[j][2].passed}}

completedCourseBaseCodes ==
  {baseCodeOf(code) : code \in completedCourseCodes} \cup completedCourseCodes

isCompleted(course) ==
  \/ course.code \in completedCourseCodes
  \/ course.code \in completedCourseBaseCodes

\* Variant: the availability list is not consulted.
isAvailableAlways(course) == TRUE

isAvailable(course) ==
  \E i \in 1..Len(availableCourses) : availableCourses[i].code = course.code

\* c.prerequisites.includes(course.code), counted over the whole curriculum.
unlocksOf(course) ==
  Len(SelectSeq(curriculum,
                LAMBDA c : ArrIncludes(c.prerequisites, course.code)))

\* Variant: a delayed course loses 2 whatever the student's semester.
calculatePriorityFlatPenalty(course, currentSemester) ==
  (CASE course.category = "AC" -> 10
     [] course.category = "FC" -> 8
     [] course.category = "UC" -> 6
     [] OTHER -> 0)
  + (IF course.semester = currentSemester THEN 5 ELSE 0)
  + (IF course.semester = currentSemester + 1 THEN 3 ELSE 0)
  + (IF currentSemester > 8 /\ course.semester <= 8 THEN 4 ELSE 0)
  - (IF course.semester < currentSemester THEN 2 ELSE 0)
  + unlocksOf(course) * 2

calculatePriority(course, currentSemester) ==
  LET p1 == IF course.category = "AC" THEN 10 ELSE 0
      p2 == IF course.category = "FC" THEN 8 ELSE 0
      p3 == IF course.category = "UC" THEN 6 ELSE 0
      p4 == IF course.semester = currentSemester THEN 5 ELSE 0
      p5 == IF course.semester = currentSemester + 1 THEN 3 ELSE 0
      p6 == IF currentSemester > 8 /\ course.semester <= 8 THEN 4 ELSE 0
      p7 == IF course.semester < currentSemester
            THEN (IF currentSemester > 8 THEN 1 ELSE 2)
            ELSE 0
  IN p1 + p2 + p3 + p4 + p5 + p6 - p7 + unlocksOf(course) * 2

\* Array.prototype.join(", ")
RECURSIVE join(_)
join(parts) ==
  IF parts = << >> THEN ""
  ELSE IF Len(parts) = 1 THEN parts[1]
  ELSE parts[1] \o ", " \o join(Tail(parts))

\* Variant: the unlock fragment is added also when no course is unlocked.
getRecommendationReasonAlwaysUnlock(course, currentSemester) ==
  join((IF course.semester = currentSemester
        THEN <<"Current semester course">>
        ELSE IF course.semester = currentSemester + 1
        THEN <<"Next semester course">>
        ELSE IF course.semester < currentSemester
        THEN <<"Delayed from previous semester">>
        ELSE << >>)
       \o (IF course.category = "AC"
           THEN <<"Area Core requirement">> ELSE << >>)
       \o (IF course.category = "FC"
           THEN <<"Faculty Core requirement">> ELSE << >>)
       \o <<"Prerequisite for " \o ToString(unlocksOf(course))
              \o " other courses">>)

getRecommendationReason(course, currentSemester) ==
  LET timing ==
        IF course.semester = currentSemester
        THEN <<"Current semester course">>
        ELSE IF course.semester = currentSemester + 1
        THEN <<"Next semester course">>
        ELSE IF course.semester < currentSemester
        THEN <<"Delayed from previous semester">>
        ELSE << >>
      areaCore == IF course.category = "AC"
                  THEN <<"Area Core requirement">> ELSE << >>
      facultyCore == IF course.category = "FC"
                     THEN <<"Faculty Core requirement">> ELSE << >>
      unlocks == unlocksOf(course)
      prereqFor ==
        IF unlocks > 0
        THEN <<"Prerequisite for " \o ToString(unlocks) \o " other courses">>
        ELSE << >>
  IN join(timing \o areaCore \o facultyCore \o prereqFor)

\* Variant: the elective test comes before the nextSemester test.
bucketOfElectivesFirst(course, currentSemester) ==
  IF course.category \in {"AE", "FE", "UE"}
  THEN "availableElectives"
  ELSE IF \/ course.semester = currentSemester
          \/ course.semester = currentSemester + 1
          \/ (currentSemester > 8 /\ course.semester <= 8)
          \/ /\ course.semester <= currentSemester + 2
             /\ course.semester >= currentSemester - 2
  THEN "nextSemesterCourses"
  ELSE IF course.semester < currentSemester
  THEN "missedCourses"
  ELSE "futureRecommendations"

\* The if / else-if chain that picks the bucket of an eligible course.
bucketOf(course, currentSemester) ==
  IF \/ course.semester = currentSemester
     \/ course.semester = currentSemester + 1
     \/ /\ currentSemester > 8
        /\ course.semester <= 8
        /\ course.code \notin completedCourseCodes
        /\ course.code \notin completedCourseBaseCodes
     \/ /\ course.semester <= currentSemester + 2
        /\ course.semester >= currentSemester - 2
  THEN "nextSemesterCourses"
  ELSE IF course.category \in {"AE", "FE", "UE"}
  THEN "availableElectives"
  ELSE IF course.semester < currentSemester
  THEN "missedCourses"
  ELSE "futureRecommendations"

\* {...course, priority, reason}
annotated(course, currentSemester) ==
  [f \in DOMAIN course \cup {"priority", "reason"} |->
     IF f = "priority" THEN calculatePriority(course, currentSemester)
     ELSE IF f = "reason" THEN getRecommendationReason(course, currentSemester)
     ELSE course[f]]

emptyRecommendations ==
  [nextSemesterCourses |-> << >>, availableElectives |-> << >>,
   missedCourses |-> << >>, futureRecommendations |-> << >>]

\* The loop over this.curriculum: skip, or push to one bucket.
RECURSIVE collect(_, _, _)
collect(i, recommendations, currentSemester) ==
  IF i > Len(curriculum) THEN recommendations
  ELSE
    LET course == curriculum[i]
    IN IF isCompleted(course)
       THEN collect(i + 1, recommendations, currentSemester)
       ELSE IF ~isAvailable(course)
       THEN collect(i + 1, recommendations, currentSemester)
       ELSE IF ~arePrerequisitesMet(course)
       THEN collect(i + 1, recommendations, currentSemester)
       ELSE
         LET bucket == bucketOf(course, currentSemester)
             entry == IF bucket = "nextSemesterCourses"
                      THEN annotated(course, currentSemester)
                      ELSE course
         IN collect(i + 1,
                    [recommendations EXCEPT ![bucket] = Append(@, entry)],
                    currentSemester)

\* Variant: an entry goes before the entries of equal priority.
insertBeforeEqual(sorted, entry) ==
  LET before == {k \in 0..Len(sorted) :
                   \A j \in 1..k : sorted[j].priority > entry.priority}
      k == CHOOSE n \in before : \A m \in before : m <= n
  IN SubSeq(sorted, 1, k) \o <<entry>> \o SubSeq(sorted, k + 1, Len(sorted))

\* Array.prototype.sort((a, b) => b.priority - a.priority): stable, so an
\* entry goes after every entry of greater or equal priority.
insertByPriority(sorted, entry) ==
  LET before == {k \in 0..Len(sorted) :
                   \A j \in 1..k : sorted[j].priority >= entry.priority}
      k == CHOOSE n \in before : \A m \in before : m <= n
  IN SubSeq(sorted, 1, k) \o <<entry>> \o SubSeq(sorted, k + 1, Len(sorted))

\* Variant: the entries stay in curriculum order.
leftUnsorted(entries) == entries

RECURSIVE sortByPriority(_)
sortByPriority(entries) ==
  IF entries = << >> THEN << >>
  ELSE insertByPriority(sortByPriority(SubSeq(entries, 1, Len(entries) - 1)),
                        entries[Len(entries)])

getRecommendedCourses ==
  LET currentSemester == getCurrentSemester
      recommendations == collect(1, emptyRecommendations, currentSemester)
  IN [recommendations EXCEPT
        !.nextSemesterCourses = sortByPriority(@)]

(***************************************************************************)
(* Queries on a parsed session.  The session is left as it is; call holds  *)
(* the operation, its argument and the value it returned.                  *)
(***************************************************************************)
\* Variant: priority and reason are assigned to the curriculum entry itself
\* (Object.assign(course, ...)) instead of to a copy of it.
GetRecommendedCoursesInPlace ==
  /\ pc = "availableParsed"
  /\ call' = [op |-> "getRecommendedCourses", value |-> getRecommendedCourses]
  /\ pc' = "returned"
  /\ curriculum' =
       [i \in 1..Len(curriculum) |->
          IF \E j \in 1..Len(getRecommendedCourses.nextSemesterCourses) :
               getRecommendedCourses.nextSemesterCourses[j].code =
                 curriculum[i].code
          THEN annotated(curriculum[i], getCurrentSemester)
          ELSE curriculum[i]]
  /\ UNCHANGED <<completedCourses, availableCourses, studentInfo>>
  /\ UNCHANGED serverVars

GetRecommendedCourses ==
  /\ pc = "availableParsed"
  /\ call' = [op |-> "getRecommendedCourses", value |-> getRecommendedCourses]
  /\ pc' = "returned"
  /\ UNCHANGED <<curriculum, completedCourses, availableCourses, studentInfo>>
  /\ UNCHANGED serverVars

\* The same session asked once more, right after the first answer.
GetRecommendedCoursesAgain ==
  /\ pc = "returned"
  /\ call.op = "getRecommendedCourses"
  /\ call' = [op |-> "getRecommendedCourses", value |-> getRecommendedCourses,
              previous |-> call.value]
  /\ UNCHANGED <<curriculum, completedCourses, availableCourses, studentInfo,
                 pc>>
  /\ UNCHANGED serverVars

GetCurrentSemester ==
  /\ pc = "availableParsed"
  /\ call' = [op |-> "getCurrentSemester", value |-> getCurrentSemester]
  /\ pc' = "returned"
  /\ UNCHANGED <<curriculum, completedCourses, availableCourses, studentInfo>>
  /\ UNCHANGED serverVars

\* Courses handed to arePrerequisitesMet besides the curriculum entries: one
\* whose only prerequisite is a code that transcripts carry with a suffix.
Dependents == { Course(2, CS102, "Data Structures", "AC", <<PHYS121>>) }

ArePrerequisitesMet ==
  /\ pc = "availableParsed"
  /\ \E course \in {curriculum[i] : i \in 1..Len(curriculum)} \cup Dependents :
       call' = [op |-> "arePrerequisitesMet", course |-> course,
                value |-> arePrerequisitesMet(course)]
  /\ pc' = "returned"
  /\ UNCHANGED <<curriculum, completedCourses, availableCourses, studentInfo>>
  /\ UNCHANGED serverVars

(***************************************************************************)
(* Progress reporter.                                                      *)
(***************************************************************************)
\* A JavaScript number that may fail to be finite.
Finite(n) == [kind |-> "finite", value |-> n]
NaN == [kind |-> "NaN"]
Infinity == [kind |-> "Infinity"]

\* Math.round((count / length) * 100): 0 / 0 is NaN, n / 0 is Infinity, and
\* a half is rounded up.
completionPercentageOf(count, length) ==
  IF length = 0
  THEN (IF count = 0 THEN NaN ELSE Infinity)
  ELSE Finite((200 * count + length) \div (2 * length))

\* Array.prototype.reduce((sum, course) => sum + course.ects, 0)
RECURSIVE sumEcts(_)
sumEcts(courses) ==
  IF courses = << >> THEN 0
  ELSE Head(courses).ects + sumEcts(Tail(courses))

\* Variant: a course counts as completed as soon as it is in completedCourses.
countCategoryAnyGrade(stats, course) ==
  LET before == IF course.category \in DOMAIN stats
                THEN stats[course.category]
                ELSE [required |-> 0, completed |-> 0]
      done == MapHas(completedCourses, course.code)
      after == [required |-> before.required + 1,
                completed |-> before.completed + (IF done THEN 1 ELSE 0)]
  IN [k \in DOMAIN stats \cup {course.category} |->
        IF k = course.category THEN after ELSE stats[k]]

\* One turn of the loop that fills categoryStats.
countCategory(stats, course) ==
  LET before == IF course.category \in DOMAIN stats
                THEN stats[course.category]
                ELSE [required |-> 0, completed |-> 0]
      done == /\ MapHas(completedCourses, course.code)
              /\ MapGet(completedCourses, course.code).passed
      after == [required |-> before.required + 1,
                completed |-> before.completed + (IF done THEN 1 ELSE 0)]
  IN [k \in DOMAIN stats \cup {course.category} |->
        IF k = course.category THEN after ELSE stats[k]]

RECURSIVE categoryStatsFrom(_, _)
categoryStatsFrom(i, stats) ==
  IF i > Len(curriculum) THEN stats
  ELSE categoryStatsFrom(i + 1, countCategory(stats, curriculum[i]))

generateProgressReport ==
  LET completed == SelectSeq(MapValues(completedCourses), LAMBDA c : c.passed)
  IN [studentInfo |-> studentInfo,
      currentSemester |-> getCurrentSemester,
      totalECTS |-> sumEcts(completed),
      totalCredits |-> sumCredits(completed),
      completedCourses |-> Len(completed),
      totalRequiredCourses |-> Len(curriculum),
      categoryStats |-> categoryStatsFrom(1, << >>),
      completionPercentage |->
        completionPercentageOf(Len(completed), Len(curriculum))]

GenerateProgressReport ==
  /\ pc = "availableParsed"
  /\ call' = [op |-> "generateProgressReport",
              value |-> generateProgressReport]
  /\ pc' = "returned"
  /\ UNCHANGED <<curriculum, completedCourses, availableCourses, studentInfo>>
  /\ UNCHANGED serverVars

\* Grade tokens handed to isPassingGrade: the failing ones, ordinary letter
\* grades, unknown and garbled ones, and ones carrying the retake marker.
GradeTokens ==
  failingGrades \cup
  { <<"A">>, <<"B", "+">>, <<"P">>, <<"S">>, <<"D", "-">>, << >>, <<"f">>,
    <<"F", " ">>, <<"(", "r", "s", "t", ")">>,
    <<"A", "(", "r", "s", "t", ")">>, <<"(", "r", "s", "t">>,
    <<"B", " ", "(", "r", "s", "t", ")", " ">> }

IsPassingGrade ==
  /\ pc = "constructed"
  /\ \E grade \in GradeTokens :
       call' = [op |-> "isPassingGrade", grade |-> grade,
                value |-> isPassingGrade(grade)]
  /\ pc' = "returned"
  /\ UNCHANGED <<curriculum, completedCourses, availableCourses, studentInfo>>
  /\ UNCHANGED serverVars

(***************************************************************************)
(* Persistence: data/parsed_data.json.                                     *)
(***************************************************************************)
\* Array.from(map.entries())
mapEntries(m) == [i \in 1..Len(m) |-> <<m[i][1], m[i][2]>>]

\* new Map(pairs): the pairs are set one after the other.
RECURSIVE newMapFrom(_, _)
newMapFrom(m, pairs) ==
  IF pairs = << >> THEN m
  ELSE newMapFrom(MapSet(m, Head(pairs)[1], Head(pairs)[2]), Tail(pairs))

newMap(pairs) == newMapFrom(EmptyMap, pairs)

\* The object saveParsedData and getParsedDataAsJSON build from a session.
parsedDataOf(session) ==
  [curriculum |-> session.curriculum,
   completedCourses |-> mapEntries(session.completedCourses),
   availableCourses |-> session.availableCourses,
   studentInfo |-> session.studentInfo,
   timestamp |-> "toISOString"]

\* parsedData.field || fallback
orElse(parsedData, field, fallback) ==
  IF field \in DOMAIN parsedData THEN parsedData[field] ELSE fallback

\* Variant: the completed courses are read from a field that is not there.
loadedFromNoCompleted(parsedData) ==
  [curriculum |-> orElse(parsedData, "curriculum", << >>),
   completedCourses |-> newMap(orElse(parsedData, "completedCourse", << >>)),
   availableCourses |-> orElse(parsedData, "availableCourses", << >>),
   studentInfo |-> orElse(parsedData, "studentInfo", << >>)]

\* The four assignments of loadParsedData.
loadedFrom(parsedData) ==
  [curriculum |-> orElse(parsedData, "curriculum", << >>),
   completedCourses |-> newMap(orElse(parsedData, "completedCourses", << >>)),
   availableCourses |-> orElse(parsedData, "availableCourses", << >>),
   studentInfo |-> orElse(parsedData, "studentInfo", << >>)]

\* Variant: a missing or unfinished file is read as an empty record.
canLoadAlways(file) == TRUE

\* fs.readFile and JSON.parse succeed: the file is there and fully written.
canLoad(file) == file.exists /\ file.complete

\* What readFile gives when it succeeds.
contentOf(file) ==
  IF file.exists /\ file.complete THEN file.data ELSE << >>

\* fs.writeFile opened the file: it exists and is empty.
openedFile == [exists |-> TRUE, complete |-> FALSE]

writtenFile(parsedData) ==
  [exists |-> TRUE, complete |-> TRUE, data |-> parsedData]

\* The text of one record followed by the rest of a longer one: no JSON.
garbledFile == [exists |-> TRUE, complete |-> FALSE, garbled |-> TRUE]

\* What the file can be after the text is written from its start.  On the
\* file as this call opened it, it is the text.  If another call has written
\* since, its text lies underneath: where it is longer, its rest remains.
writeOutcomes(file, parsedData) ==
  IF file = openedFile \/ (file.complete /\ file.data = parsedData)
  THEN {writtenFile(parsedData)}
  ELSE {writtenFile(parsedData), garbledFile}

sessionInHand ==
  [curriculum |-> curriculum, completedCourses |-> completedCourses,
   availableCourses |-> availableCourses, studentInfo |-> studentInfo]

getParsedDataAsJSON == parsedDataOf(sessionInHand)

\* return { curriculum, completedCourses: Array.from(entries), ... }
GetParsedDataAsJSON ==
  /\ pc = "availableParsed"
  /\ call' = [op |-> "getParsedDataAsJSON", value |-> getParsedDataAsJSON]
  /\ pc' = "returned"
  /\ UNCHANGED <<curriculum, completedCourses, availableCourses, studentInfo>>
  /\ UNCHANGED serverVars

collectionsOf(session) ==
  [curriculum |-> session.curriculum,
   completedCourses |-> session.completedCourses,
   availableCourses |-> session.availableCourses,
   studentInfo |-> session.studentInfo]

(***************************************************************************)
(* The server: requests handled by a session each.  The uploaded documents *)
(* are what the extractors make of them, or unreadable.                    *)
(***************************************************************************)
Unreadable == [readable |-> FALSE]

CurriculumDocuments ==
  { Unreadable,
    [readable |-> TRUE, courses |-> << >>],
    [readable |-> TRUE,
     courses |-> <<Course(1, CS101, "Introduction to Computer Science",
                          "AC", << >>)>>],
    [readable |-> TRUE,
     courses |-> <<Course(1, CS101, "Introduction to Computer Science",
                          "AC", << >>),
                   Course(2, CS102, "Data Structures", "AC", <<CS101>>)>>] }

TranscriptDocuments ==
  { Unreadable,
    [readable |-> TRUE, rows |-> << >>, studentInfo |-> << >>],
    [readable |-> TRUE,
     rows |-> <<Row(PHYS121F, "Physics I", <<"A">>, 160),
                Row(CS101, "Introduction to Computer Science", <<"A">>, 6)>>,
     studentInfo |-> [studentNo |-> "12345", name |-> "John Doe"]] }

AvailableDocuments ==
  { Unreadable,
    [readable |-> TRUE, courses |-> << >>],
    [readable |-> TRUE,
     courses |-> <<[code |-> CS102, title |-> "Data Structures"]>>] }

ParseMethods == {"parseAndSaveDocuments", "processDocuments"}

running(method) == [op |-> method, status |-> 0]

\* Variant: the error leaves the method, and the route answers 500.
failureRethrown(method, message) ==
  [op |-> method, status |-> 500, success |-> FALSE, error |-> message]

\* The catch block: { success: false, error: error.message }
failure(method, message) ==
  [op |-> method, status |-> 200, success |-> FALSE, error |-> message]

\* 400: one of the three files is missing from the request.
SrvBadRequest ==
  /\ pc = "constructed"
  /\ \E route \in {"parseAndSave", "recommendCourses"} :
       call' = [op |-> route, status |-> 400, success |-> FALSE,
                message |-> "Please upload all three required files"]
  /\ pc' = "returned"
  /\ UNCHANGED <<curriculum, completedCourses, availableCourses, studentInfo>>
  /\ UNCHANGED serverVars

SrvParseCurriculum ==
  /\ pc = "constructed"
  /\ \E method \in ParseMethods, document \in CurriculumDocuments :
       IF document.readable
       THEN /\ curriculum' = document.courses
            /\ pc' = "curriculumParsed"
            /\ call' = running(method)
       ELSE /\ curriculum' = curriculum
            /\ pc' = "returned"
            /\ call' = failure(method, "curriculum")
  /\ UNCHANGED <<completedCourses, availableCourses, studentInfo>>
  /\ UNCHANGED serverVars

SrvParseTranscript ==
  /\ pc = "curriculumParsed"
  /\ call.op \in ParseMethods
  /\ \E document \in TranscriptDocuments :
       IF document.readable
       THEN /\ completedCourses' = SetRows(EmptyMap, document.rows)
            /\ studentInfo' = document.studentInfo
            /\ pc' = "transcriptParsed"
            /\ call' = call
       ELSE /\ UNCHANGED <<completedCourses, studentInfo>>
            /\ pc' = "returned"
            /\ call' = failure(call.op, "transcript")
  /\ UNCHANGED <<curriculum, availableCourses>>
  /\ UNCHANGED serverVars

SrvParseAvailableCourses ==
  /\ pc = "transcriptParsed"
  /\ call.op \in ParseMethods
  /\ \E document \in AvailableDocuments :
       IF document.readable
       THEN /\ availableCourses' = document.courses
            /\ pc' = "availableParsed"
            /\ call' = call
       ELSE /\ availableCourses' = availableCourses
            /\ pc' = "returned"
            /\ call' = failure(call.op, "availableCourses")
  /\ UNCHANGED <<curriculum, completedCourses, studentInfo>>
  /\ UNCHANGED serverVars

\* processDocuments after the three parses.
SrvRecommend ==
  /\ pc = "availableParsed"
  /\ call.op = "processDocuments"
  /\ call' = [op |-> "processDocuments", status |-> 200, success |-> TRUE,
              recommendations |-> getRecommendedCourses,
              progressReport |-> generateProgressReport,
              message |-> "Documents processed successfully"]
  /\ pc' = "returned"
  /\ UNCHANGED <<curriculum, completedCourses, availableCourses, studentInfo>>
  /\ UNCHANGED serverVars

\* Variant: the data is saved as soon as the curriculum is parsed.
SrvOpenFileEarly ==
  /\ pc \in {"curriculumParsed", "transcriptParsed", "availableParsed"}
  /\ call.op = "parseAndSaveDocuments"
  /\ \E opened \in BOOLEAN :
       IF opened
       THEN /\ parsedDataFile' = openedFile
            /\ pc' = "writing"
            /\ call' = call
       ELSE /\ parsedDataFile' = parsedDataFile
            /\ pc' = "returned"
            /\ call' = failure(call.op, "writeFile")
  /\ UNCHANGED <<curriculum, completedCourses, availableCourses, studentInfo>>
  /\ UNCHANGED <<otherSession, savedSession>>

\* saveParsedData, first half: writeFile opens the file, or fails.
SrvOpenFile ==
  /\ pc = "availableParsed"
  /\ call.op = "parseAndSaveDocuments"
  /\ \E opened \in BOOLEAN :
       IF opened
       THEN /\ parsedDataFile' = openedFile
            /\ pc' = "writing"
            /\ call' = call
       ELSE /\ parsedDataFile' = parsedDataFile
            /\ pc' = "returned"
            /\ call' = failure(call.op, "writeFile")
  /\ UNCHANGED <<curriculum, completedCourses, availableCourses, studentInfo>>
  /\ UNCHANGED <<otherSession, savedSession>>

\* saveParsedData, second half: the record is written and the result made.
SrvWriteFile ==
  /\ pc = "writing"
  /\ parsedDataFile' \in writeOutcomes(parsedDataFile, getParsedDataAsJSON)
  /\ savedSession' =
       IF parsedDataFile'.complete THEN sessionInHand ELSE savedSession
  /\ call' = [op |-> "parseAndSaveDocuments", status |-> 200,
              success |-> TRUE, savedFilePath |-> "data/parsed_data.json",
              parsedData |-> getParsedDataAsJSON,
              message |-> "Documents parsed and saved to JSON successfully"]
  /\ pc' = "returned"
  /\ UNCHANGED <<curriculum, completedCourses, availableCourses, studentInfo>>
  /\ UNCHANGED otherSession

\* loadAndRecommend: loadParsedData, then the engine on what was loaded.
SrvLoadAndRecommend ==
  /\ pc = "constructed"
  /\ IF canLoad(parsedDataFile)
     THEN LET loaded == loadedFrom(contentOf(parsedDataFile))
          IN /\ curriculum' = loaded.curriculum
             /\ completedCourses' = loaded.completedCourses
             /\ availableCourses' = loaded.availableCourses
             /\ studentInfo' = loaded.studentInfo
             /\ call' = [op |-> "loadAndRecommend", status |-> 200,
                         success |-> TRUE,
                         progressReport |-> generateProgressReport',
                         recommendations |-> getRecommendedCourses',
                         parsedData |-> getParsedDataAsJSON',
                         message |-> "Recommendations generated successfully"]
     ELSE /\ UNCHANGED <<curriculum, completedCourses, availableCourses,
                         studentInfo>>
          /\ call' = failure("loadAndRecommend",
                             "Failed to load parsed data from JSON")
  /\ pc' = "returned"
  /\ UNCHANGED serverVars

\* GET /api/parsed-data
SrvGetParsedData ==
  /\ pc = "constructed"
  /\ IF canLoad(parsedDataFile)
     THEN LET loaded == loadedFrom(contentOf(parsedDataFile))
          IN /\ curriculum' = loaded.curriculum
             /\ completedCourses' = loaded.completedCourses
             /\ availableCourses' = loaded.availableCourses
             /\ studentInfo' = loaded.studentInfo
             /\ call' = [op |-> "getParsedData", status |-> 200,
                         success |-> TRUE, data |-> getParsedDataAsJSON']
     ELSE /\ UNCHANGED <<curriculum, completedCourses, availableCourses,
                         studentInfo>>
          /\ call' = [op |-> "getParsedData", status |-> 404,
                      success |-> FALSE,
                      message |-> "No parsed data found"]
  /\ pc' = "returned"
  /\ UNCHANGED serverVars

(***************************************************************************)
(* A second request, handled at the same time by a session of its own.     *)
(***************************************************************************)
otherFailure(message) ==
  [op |-> "parseAndSaveDocuments", status |-> 200, success |-> FALSE,
   error |-> message]

\* Variant: the advisor is one object of the module, shared by the handlers.
OtherParseCurriculumShared ==
  /\ otherSession.pc = "idle"
  /\ \E document \in CurriculumDocuments :
       IF document.readable
       THEN /\ otherSession' = [idleSession EXCEPT
                                  !.pc = "curriculumParsed",
                                  !.curriculum = document.courses]
            /\ curriculum' = document.courses
       ELSE /\ otherSession' = [idleSession EXCEPT
                                  !.pc = "done",
                                  !.response = otherFailure("curriculum")]
            /\ curriculum' = curriculum
  /\ UNCHANGED <<completedCourses, availableCourses, studentInfo, pc, call>>
  /\ UNCHANGED <<parsedDataFile, savedSession>>

\* parseAndSave of the second request: new CourseAdvisorSystem(), then
\* parseCurriculum on its own fields.
OtherParseCurriculum ==
  /\ otherSession.pc = "idle"
  /\ \E document \in CurriculumDocuments :
       IF document.readable
       THEN otherSession' = [idleSession EXCEPT
                               !.pc = "curriculumParsed",
                               !.curriculum = document.courses]
       ELSE otherSession' = [idleSession EXCEPT
                               !.pc = "done",
                               !.response = otherFailure("curriculum")]
  /\ UNCHANGED <<curriculum, completedCourses, availableCourses, studentInfo,
                 pc, call>>
  /\ UNCHANGED <<parsedDataFile, savedSession>>

OtherParseTranscript ==
  /\ otherSession.pc = "curriculumParsed"
  /\ \E document \in TranscriptDocuments :
       IF document.readable
       THEN otherSession' = [otherSession EXCEPT
                               !.pc = "transcriptParsed",
                               !.completedCourses =
                                   SetRows(EmptyMap, document.rows),
                               !.studentInfo = document.studentInfo]
       ELSE otherSession' = [otherSession EXCEPT
                               !.pc = "done",
                               !.response = otherFailure("transcript")]
  /\ UNCHANGED <<curriculum, completedCourses, availableCourses, studentInfo,
                 pc, call>>
  /\ UNCHANGED <<parsedDataFile, savedSession>>

OtherParseAvailableCourses ==
  /\ otherSession.pc = "transcriptParsed"
  /\ \E document \in AvailableDocuments :
       IF document.readable
       THEN otherSession' = [otherSession EXCEPT
                               !.pc = "availableParsed",
                               !.availableCourses = document.courses]
       ELSE otherSession' = [otherSession EXCEPT
                               !.pc = "done",
                               !.response = otherFailure("availableCourses")]
  /\ UNCHANGED <<curriculum, completedCourses, availableCourses, studentInfo,
                 pc, call>>
  /\ UNCHANGED <<parsedDataFile, savedSession>>

OtherOpenFile ==
  /\ otherSession.pc = "availableParsed"
  /\ \E opened \in BOOLEAN :
       IF opened
       THEN /\ parsedDataFile' = openedFile
            /\ otherSession' = [otherSession EXCEPT !.pc = "writing"]
       ELSE /\ parsedDataFile' = parsedDataFile
            /\ otherSession' = [otherSession EXCEPT
                                  !.pc = "done",
                                  !.response = otherFailure("writeFile")]
  /\ UNCHANGED <<curriculum, completedCourses, availableCourses, studentInfo,
                 pc, call>>
  /\ UNCHANGED savedSession

OtherWriteFile ==
  /\ otherSession.pc = "writing"
  /\ parsedDataFile' \in
       writeOutcomes(parsedDataFile, parsedDataOf(otherSession))
  /\ savedSession' =
       IF parsedDataFile'.complete
       THEN collectionsOf(otherSession)
       ELSE savedSession
  /\ otherSession' =
       [otherSession EXCEPT
          !.pc = "done",
          !.response =
              [op |-> "parseAndSaveDocuments", status |-> 200,
               success |-> TRUE, savedFilePath |-> "data/parsed_data.json",
               parsedData |-> parsedDataOf(otherSession),
               message |-> "Documents parsed and saved to JSON successfully"]]
  /\ UNCHANGED <<curriculum, completedCourses, availableCourses, studentInfo,
                 pc, call>>

\* The response is sent; the next request of this kind may arrive.
OtherRespond ==
  /\ otherSession.pc = "done"
  /\ otherSession' = idleSession
  /\ UNCHANGED <<curriculum, completedCourses, availableCourses, studentInfo,
                 pc, call>>
  /\ UNCHANGED <<parsedDataFile, savedSession>>

ServerNext ==
  \/ NewSession
  \/ SrvBadRequest
  \/ SrvParseCurriculum
  \/ SrvParseTranscript
  \/ SrvParseAvailableCourses
  \/ SrvRecommend
  \/ SrvOpenFile
  \/ SrvWriteFile
  \/ SrvLoadAndRecommend
  \/ SrvGetParsedData
  \/ OtherParseCurriculum
  \/ OtherParseTranscript
  \/ OtherParseAvailableCourses
  \/ OtherOpenFile
  \/ OtherWriteFile
  \/ OtherRespond

ServerSpec == Init /\ [][ServerNext]_vars

(***************************************************************************)
(* parseTranscript, record by record.  The map is built in a local and     *)
(* assigned to the session at the end.  A line of a PDF transcript is      *)
(* given as the pattern that matched it and the groups it captured; which  *)
(* pattern matches first on a given text is not modelled, every pattern    *)
(* may be the one.                                                         *)
(***************************************************************************)
MaxTranscriptLines == 2

\* String.prototype.trim on a character sequence.
RECURSIVE trimStart(_)
trimStart(s) ==
  IF s # << >> /\ Head(s) = " " THEN trimStart(Tail(s)) ELSE s

RECURSIVE trimEnd(_)
trimEnd(s) ==
  IF s # << >> /\ s[Len(s)] = " "
  THEN trimEnd(SubSeq(s, 1, Len(s) - 1))
  ELSE s

trim(s) == trimEnd(trimStart(s))

\* s.slice(-1) and s.slice(0, -1)
sliceLast(s) == IF s = << >> THEN << >> ELSE <<s[Len(s)]>>

sliceButLast(s) == IF s = << >> THEN << >> ELSE SubSeq(s, 1, Len(s) - 1)

\* parseFloat(x) || fallback, on a captured run of digits.
floatOr(x, fallback) == IF x = 0 THEN fallback ELSE x

\* Codes the patterns capture: [A-Z]{2,4}\d{3,4} with or without a letter
\* after the digits.
PlainCodes == {CS101}

SuffixedCodes == {PHYS121F}

\* ([A-F][+-]?|W|P|F\*?) and ([A-F][+-]?)
LetterGrades == {<<"A">>, <<"F">>}

PatternGrades == LetterGrades \cup {<<"W">>, <<"F", "*">>}

\* What each of the eighteen patterns can capture as code, as grade and as
\* credits: the number is 0 only where the code has a default for it.
codesOf(index) ==
  IF index \in {0, 1, 2, 16, 17} THEN PlainCodes
  ELSE IF index \in {6, 7, 8} THEN SuffixedCodes
  ELSE PlainCodes \cup SuffixedCodes

gradesOf(index) ==
  IF index \in {0, 1, 2, 4, 7, 8, 9, 11} THEN PatternGrades
  ELSE IF index \in {14, 15, 16, 17} THEN LetterGrades
  ELSE {<< >>}

creditsOf(index) == IF index \in {10, 11, 12} THEN {0, 4} ELSE {4}

LineMatches ==
  UNION {[index : {index}, code : codesOf(index), title : {"Physics I"},
          grade : gradesOf(index), ects : {6}, credits : creditsOf(index),
          gradePoints : {0}] : index \in 0..17}

courseRecord(code, title, grade, credits, ects, gradePoints, passed) ==
  [code |-> code, title |-> title, grade |-> grade, credits |-> credits,
   ects |-> ects, gradePoints |-> gradePoints, passed |-> passed]

\* Variant: every line-mode record is taken as passed.
courseDataAssumedPassed(m) ==
  courseRecord(trim(m.code), m.title, trim(m.grade), m.credits, m.ects,
               m.gradePoints, TRUE)

\* The branch of the pattern that matched builds courseData.
courseData(m) ==
  IF m.index \in {0, 14, 15, 16, 17}
  THEN courseRecord(trim(m.code),
                    IF m.index = 0 THEN m.title ELSE "", trim(m.grade),
                    m.credits, m.ects, m.gradePoints,
                    isPassingGrade(trim(m.grade)))
  ELSE IF m.index = 1
  THEN courseRecord(trim(m.code), m.title, trim(m.grade), m.credits, m.ects,
                    0, isPassingGrade(trim(m.grade)))
  ELSE IF m.index = 3
  THEN courseRecord(trim(m.code), "", <<"P">>, m.credits, m.ects,
                    m.gradePoints, TRUE)
  ELSE IF m.index \in {5, 13}
  THEN courseRecord(trim(m.code), m.title, <<"P">>, 3, 3, 0, TRUE)
  ELSE IF m.index = 6
  THEN courseRecord(trim(sliceButLast(m.code)), "", sliceLast(m.code),
                    m.credits, m.ects, m.gradePoints,
                    isPassingGrade(sliceLast(m.code)))
  ELSE IF m.index = 7
  THEN courseRecord(trim(m.code), m.title, trim(m.grade), 3, 3, 0,
                    isPassingGrade(trim(m.grade)))
  ELSE IF m.index = 8
  THEN courseRecord(trim(m.code), "", trim(m.grade), 3, 3, 0,
                    isPassingGrade(trim(m.grade)))
  ELSE IF m.index = 10
  THEN courseRecord(trim(m.code), "", <<"P">>, floatOr(m.credits, 3),
                    floatOr(m.ects, 3), floatOr(m.gradePoints, 0), TRUE)
  ELSE IF m.index = 11
  THEN courseRecord(trim(m.code), m.title, trim(m.grade),
                    floatOr(m.credits, 3), floatOr(m.credits, 3), 0,
                    isPassingGrade(trim(m.grade)))
  ELSE IF m.index = 12
  THEN courseRecord(trim(m.code), "", <<"P">>, floatOr(m.credits, 3),
                    floatOr(m.credits, 3), 0, TRUE)
  ELSE courseRecord(trim(m.code), m.title, trim(m.grade), m.credits,
                    m.credits, 0, isPassingGrade(trim(m.grade)))

\* Rows of a spreadsheet transcript, among them one without a grade and one
\* with a retake marker.
SheetRows ==
  TranscriptRows \cup
  { Row(CS102, "Data Structures", << >>, 6),
    Row(CS102, "Data Structures", <<"A", "(", "r", "s", "t", ")">>, 6) }

\* The locals of parseTranscript, with the records made so far in the order
\* of their lines.
reading(mode, map, count, made) ==
  [op |-> "parseTranscript", mode |-> mode, completedCourses |-> map,
   read |-> count, made |-> made]

\* const completedCourses = new Map()
OpenTranscript ==
  /\ pc = "constructed"
  /\ \E mode \in {"xlsx", "pdf"} : call' = reading(mode, EmptyMap, 0, << >>)
  /\ pc' = "readingTranscript"
  /\ UNCHANGED <<curriculum, completedCourses, availableCourses, studentInfo>>
  /\ UNCHANGED serverVars

\* for (const row of data): if (row.Code && row.Grade) set
ReadTranscriptRow ==
  /\ pc = "readingTranscript"
  /\ call.mode = "xlsx"
  /\ call.read < MaxTranscriptLines
  /\ \E row \in SheetRows :
       call' = reading("xlsx",
                       IF row.Code # << >> /\ row.Grade # << >>
                       THEN MapSet(call.completedCourses, row.Code,
                                   CompletedCourse(row))
                       ELSE call.completedCourses,
                       call.read + 1,
                       IF row.Code # << >> /\ row.Grade # << >>
                       THEN Append(call.made, CompletedCourse(row))
                       ELSE call.made)
  /\ UNCHANGED <<curriculum, completedCourses, availableCourses, studentInfo,
                 pc>>
  /\ UNCHANGED serverVars

\* for (const line of lines): the first pattern that matches sets a record.
ReadTranscriptLine ==
  /\ pc = "readingTranscript"
  /\ call.mode = "pdf"
  /\ call.read < MaxTranscriptLines
  /\ \E m \in LineMatches :
       call' = reading("pdf",
                       MapSet(call.completedCourses, courseData(m).code,
                              courseData(m)),
                       call.read + 1, Append(call.made, courseData(m)))
  /\ UNCHANGED <<curriculum, completedCourses, availableCourses, studentInfo,
                 pc>>
  /\ UNCHANGED serverVars

\* this.completedCourses = completedCourses
CommitTranscript ==
  /\ pc = "readingTranscript"
  /\ completedCourses' = call.completedCourses
  /\ studentInfo' = << >>
  /\ pc' = "transcriptParsed"
  /\ call' = [op |-> "parseTranscript"]
  /\ UNCHANGED <<curriculum, availableCourses>>
  /\ UNCHANGED serverVars

\* The operations that read the completed courses afterwards.
UseRecommendedCourses ==
  /\ pc = "transcriptParsed"
  /\ call' = [op |-> "getRecommendedCourses", value |-> getRecommendedCourses]
  /\ UNCHANGED <<curriculum, completedCourses, availableCourses, studentInfo,
                 pc>>
  /\ UNCHANGED serverVars

UseProgressReport ==
  /\ pc = "transcriptParsed"
  /\ call' = [op |-> "generateProgressReport",
              value |-> generateProgressReport]
  /\ UNCHANGED <<curriculum, completedCourses, availableCourses, studentInfo,
                 pc>>
  /\ UNCHANGED serverVars

UseParsedDataAsJSON ==
  /\ pc = "transcriptParsed"
  /\ call' = [op |-> "getParsedDataAsJSON", value |-> getParsedDataAsJSON]
  /\ UNCHANGED <<curriculum, completedCourses, availableCourses, studentInfo,
                 pc>>
  /\ UNCHANGED serverVars

UseSaveParsedData ==
  /\ pc = "transcriptParsed"
  /\ parsedDataFile' = writtenFile(getParsedDataAsJSON)
  /\ savedSession' = sessionInHand
  /\ call' = [op |-> "saveParsedData", value |-> "data/parsed_data.json"]
  /\ UNCHANGED <<curriculum, completedCourses, availableCourses, studentInfo,
                 pc>>
  /\ UNCHANGED otherSession

TranscriptNext ==
  \/ OpenTranscript
  \/ ReadTranscriptRow
  \/ ReadTranscriptLine
  \/ CommitTranscript
  \/ UseRecommendedCourses
  \/ UseProgressReport
  \/ UseParsedDataAsJSON
  \/ UseSaveParsedData

TranscriptSpec == Init /\ [][TranscriptNext]_vars

(***************************************************************************)
(* parseCurriculum on the extracted text, line by line.  A trimmed line is *)
(* the sequence of its words, which single blanks separate; a word is a    *)
(* character sequence.                                                     *)
(***************************************************************************)
MaxCurriculumLines == 3

Digits == {"0", "1", "2", "3", "4", "5", "6", "7", "8", "9"}

digitValue(c) ==
  CASE c = "0" -> 0 [] c = "1" -> 1 [] c = "2" -> 2 [] c = "3" -> 3
    [] c = "4" -> 4 [] c = "5" -> 5 [] c = "6" -> 6 [] c = "7" -> 7
    [] c = "8" -> 8 [] c = "9" -> 9

upperCase ==
  <<"A", "B", "C", "D", "E", "F", "G", "H", "I", "J", "K", "L", "M",
    "N", "O", "P", "Q", "R", "S", "T", "U", "V", "W", "X", "Y", "Z">>

lowerCase ==
  <<"a", "b", "c", "d", "e", "f", "g", "h", "i", "j", "k", "l", "m",
    "n", "o", "p", "q", "r", "s", "t", "u", "v", "w", "x", "y", "z">>

\* The /i flag: characters are compared in lower case.
lowerChar(c) ==
  IF c \in UpperLetters
  THEN lowerCase[CHOOSE i \in 1..26 : upperCase[i] = c]
  ELSE c

toLowerCase(w) == [i \in 1..Len(w) |-> lowerChar(w[i])]

startsWith(w, prefix) ==
  Len(w) >= Len(prefix) /\ SubSeq(w, 1, Len(prefix)) = prefix

endsWith(w, suffix) ==
  /\ Len(w) >= Len(suffix)
  /\ SubSeq(w, Len(w) - Len(suffix) + 1, Len(w)) = suffix

isDigits(w) == w # << >> /\ \A i \in 1..Len(w) : w[i] \in Digits

startsWithDigit(w) == w # << >> /\ w[1] \in Digits

\* (\d+) at the start of a word: the longest run of digits.
RECURSIVE leadingDigits(_)
leadingDigits(w) ==
  IF w # << >> /\ Head(w) \in Digits
  THEN <<Head(w)>> \o leadingDigits(Tail(w))
  ELSE << >>

RECURSIVE digitsValue(_)
digitsValue(d) ==
  IF d = << >> THEN 0
  ELSE 10 * digitsValue(SubSeq(d, 1, Len(d) - 1)) + digitValue(d[Len(d)])

\* A capture group: the text it took, or undefined.
undefined == [defined |-> FALSE]

captured(text) == [defined |-> TRUE, text |-> text]

null == [kind |-> "null"]

\* parseInt of a captured group: NaN for a group that did not take part.
parseInt(group) ==
  IF group.defined
  THEN Finite(digitsValue(leadingDigits(group.text)))
  ELSE NaN

\* if (x) on a number or null
truthy(x) == x.kind = "finite" /\ x.value # 0

noMatch == [matched |-> FALSE]

matchOf(group) == [matched |-> TRUE, group1 |-> group]

\* /^(\d+)\s+/
leadingInteger(words) ==
  IF Len(words) >= 2 /\ isDigits(words[1])
  THEN matchOf(captured(words[1]))
  ELSE noMatch

\* /semester\s+(\d+)/i
semesterNumber(words) ==
  LET at == {k \in 1..(Len(words) - 1) :
               /\ endsWith(toLowerCase(words[k]),
                           <<"s", "e", "m", "e", "s", "t", "e", "r">>)
               /\ startsWithDigit(words[k + 1])}
  IN IF at = {} THEN noMatch
     ELSE matchOf(captured(leadingDigits(
            words[(CHOOSE k \in at : \A j \in at : k <= j) + 1])))

\* /^(\d+)st|nd|rd|th\s+semester/i: four alternatives, "^(\d+)st", "nd",
\* "rd" and "th\s+semester"; the group takes part in the first one only.
ordinalSemester(words) ==
  IF /\ Len(words) >= 1
     /\ leadingDigits(words[1]) # << >>
     /\ startsWith(toLowerCase(SubSeq(words[1],
                                      Len(leadingDigits(words[1])) + 1,
                                      Len(words[1]))),
                   <<"s", "t">>)
  THEN matchOf(captured(leadingDigits(words[1])))
  ELSE IF \E k \in 1..Len(words) :
            \/ StrIncludes(toLowerCase(words[k]), <<"n", "d">>)
            \/ StrIncludes(toLowerCase(words[k]), <<"r", "d">>)
            \/ /\ endsWith(toLowerCase(words[k]), <<"t", "h">>)
               /\ k < Len(words)
               /\ startsWith(toLowerCase(words[k + 1]),
                             <<"s", "e", "m", "e", "s", "t", "e", "r">>)
  THEN matchOf(undefined)
  ELSE noMatch

\* /^year\s+(\d+)/i
yearNumber(words) ==
  IF /\ Len(words) >= 2
     /\ toLowerCase(words[1]) = <<"y", "e", "a", "r">>
     /\ startsWithDigit(words[2])
  THEN matchOf(captured(leadingDigits(words[2])))
  ELSE noMatch

\* The loop over semesterPatterns: the first that matches sets
\* currentSemester = parseInt(match[1]).
detectSemester(words, currentSemester) ==
  IF leadingInteger(words).matched
  THEN parseInt(leadingInteger(words).group1)
  ELSE IF semesterNumber(words).matched
  THEN parseInt(semesterNumber(words).group1)
  ELSE IF ordinalSemester(words).matched
  THEN parseInt(ordinalSemester(words).group1)
  ELSE IF yearNumber(words).matched
  THEN parseInt(yearNumber(words).group1)
  ELSE currentSemester

\* The words from..to of a line, put together again with single blanks.
RECURSIVE joinWords(_, _, _)
joinWords(words, from, to) ==
  IF from > to THEN << >>
  ELSE IF from = to THEN words[from]
  ELSE words[from] \o <<" ">> \o joinWords(words, from + 1, to)

\* String.prototype.split(",")
RECURSIVE splitAtCommas(_, _)
splitAtCommas(s, piece) ==
  IF s = << >> THEN <<piece>>
  ELSE IF Head(s) = "," THEN <<piece>> \o splitAtCommas(Tail(s), << >>)
  ELSE splitAtCommas(Tail(s), Append(piece, Head(s)))

\* .map((p) => p.trim()).filter((p) => p && p !== "-")
RECURSIVE trimmedAndKept(_)
trimmedAndKept(pieces) ==
  IF pieces = << >> THEN << >>
  ELSE (IF trim(Head(pieces)) \in {<< >>, <<"-">>}
        THEN << >>
        ELSE <<trim(Head(pieces))>>) \o trimmedAndKept(Tail(pieces))

\* prerequisites ? prerequisites.split(",")... : []
prerequisitesOf(group) ==
  IF group.defined /\ group.text # << >>
  THEN trimmedAndKept(splitAtCommas(group.text, << >>))
  ELSE << >>

\* The run of letters that ends w, and the run of digits that ends w.
RECURSIVE trailingRun(_, _)
trailingRun(w, chars) ==
  IF w # << >> /\ w[Len(w)] \in chars
  THEN Append(trailingRun(SubSeq(w, 1, Len(w) - 1), chars), w[Len(w)])
  ELSE << >>

\* ([A-Z]{2,4}\d{3,4})\s: the code a word ends with, << >> if none.  With
\* the /i flag lower-case letters count as well.
codeIn(w, ignoreCase) ==
  LET digits == trailingRun(w, Digits)
      front == SubSeq(w, 1, Len(w) - Len(digits))
      letters == trailingRun(IF ignoreCase
                             THEN [i \in 1..Len(front) |->
                                     IF lowerChar(front[i]) \in
                                          {lowerCase[j] : j \in 1..26}
                                     THEN "A" ELSE front[i]]
                             ELSE front,
                             UpperLetters)
      taken == IF Len(letters) > 4 THEN 4 ELSE Len(letters)
  IN IF Len(digits) \in 3..4 /\ Len(letters) >= 2
     THEN SubSeq(w, Len(w) - Len(digits) - taken + 1, Len(w))
     ELSE << >>

lowerCategories ==
  << <<"a", "c">>, <<"f", "c">>, <<"u", "c">>, <<"f", "e">>, <<"a", "e">>,
     <<"u", "e">>, <<"c", "o", "r", "e">>,
     <<"e", "l", "e", "c", "t", "i", "v", "e">> >>

\* (AC|FC|UC|FE|AE|UE|CORE|ELECTIVE) at the start of a word, /i: the text
\* matched by the first alternative that fits, << >> if none.
categoryAt(w) ==
  LET fits == {i \in 1..Len(lowerCategories) :
                 startsWith(toLowerCase(w), lowerCategories[i])}
  IN IF fits = {} THEN << >>
     ELSE SubSeq(w, 1,
                 Len(lowerCategories[CHOOSE i \in fits :
                                       \A j \in fits : i <= j]))

\* The category followed by a blank: it is the whole word.
isCategoryWord(w) == w # << >> /\ categoryAt(w) = w

least(S) == CHOOSE i \in S : \A j \in S : i <= j

\* Pattern 0: CODE TITLE CATEGORY L T P CREDIT [PREREQ] ECTS.  k is the word
\* of the code, c the word of the category, e the word of the ECTS number.
standardEnds(words, c) ==
  {e \in (c + 6)..Len(words) : startsWithDigit(words[e])}

standardFits(words, k, c) ==
  /\ c >= k + 2
  /\ c + 5 <= Len(words)
  /\ isCategoryWord(words[c])
  /\ \A i \in (c + 1)..(c + 4) : isDigits(words[i])
  /\ (standardEnds(words, c) # {} \/ startsWithDigit(words[c + 5]))

standardCourse(words, k, currentSemester) ==
  LET cs == {c \in 1..Len(words) : standardFits(words, k, c)}
      c == least(cs)
      ends == standardEnds(words, c)
      e == IF ends # {} THEN least(ends) ELSE c + 5
  IN IF codeIn(words[k], TRUE) = << >> \/ cs = {} THEN noMatch
     ELSE [matched |-> TRUE,
           course |->
             [semester |-> currentSemester,
              code |-> trim(codeIn(words[k], TRUE)),
              title |-> trim(joinWords(words, k + 1, c - 1)),
              category |-> trim(words[c]),
              lecture |-> digitsValue(words[c + 1]),
              tutorial |-> digitsValue(words[c + 2]),
              lab |-> digitsValue(words[c + 3]),
              totalCredit |-> digitsValue(words[c + 4]),
              prerequisites |->
                prerequisitesOf(IF ends # {}
                                THEN captured(joinWords(words, c + 5,
                                                        e - 1))
                                ELSE undefined),
              ects |-> digitsValue(leadingDigits(words[e]))]]

\* Pattern 1: CODE TITLE CREDITS ECTS CATEGORY.
alternativeFits(words, k, j) ==
  /\ j >= k + 2
  /\ j + 2 <= Len(words)
  /\ isDigits(words[j])
  /\ isDigits(words[j + 1])
  /\ categoryAt(words[j + 2]) # << >>

alternativeCourse(words, k, currentSemester) ==
  LET js == {j \in 1..Len(words) : alternativeFits(words, k, j)}
      j == least(js)
  IN IF codeIn(words[k], TRUE) = << >> \/ js = {} THEN noMatch
     ELSE [matched |-> TRUE,
           course |->
             [semester |-> currentSemester,
              code |-> trim(codeIn(words[k], TRUE)),
              title |-> trim(joinWords(words, k + 1, j - 1)),
              category |-> trim(categoryAt(words[j + 2])),
              lecture |-> 0, tutorial |-> 0, lab |-> 0,
              totalCredit |-> digitsValue(words[j]),
              prerequisites |-> << >>,
              ects |-> digitsValue(words[j + 1])]]

\* Pattern 2: CODE TITLE CREDITS.
simpleCourse(words, k, currentSemester) ==
  LET js == {j \in (k + 2)..Len(words) : startsWithDigit(words[j])}
      j == least(js)
  IN IF codeIn(words[k], FALSE) = << >> \/ js = {} THEN noMatch
     ELSE [matched |-> TRUE,
           course |->
             [semester |-> currentSemester,
              code |-> trim(codeIn(words[k], FALSE)),
              title |-> trim(joinWords(words, k + 1, j - 1)),
              category |-> <<"U", "C">>,
              lecture |-> 0, tutorial |-> 0, lab |-> 0,
              totalCredit |-> digitsValue(leadingDigits(words[j])),
              prerequisites |-> << >>,
              ects |-> digitsValue(leadingDigits(words[j]))]]

\* A pattern on a line: its match from the leftmost word it can start at.
firstFrom(words, currentSemester, index) ==
  LET tryAt(k) == IF index = 0 THEN standardCourse(words, k, currentSemester)
                  ELSE IF index = 1
                  THEN alternativeCourse(words, k, currentSemester)
                  ELSE simpleCourse(words, k, currentSemester)
      ks == {k \in 1..Len(words) : tryAt(k).matched}
  IN IF ks = {} THEN noMatch ELSE tryAt(least(ks))

\* Variant: the patterns are tried from the simplest to the standard one.
coursesOnLineSimpleFirst(words, currentSemester) ==
  IF ~truthy(currentSemester) THEN << >>
  ELSE IF firstFrom(words, currentSemester.value, 2).matched
  THEN <<firstFrom(words, currentSemester.value, 2).course>>
  ELSE IF firstFrom(words, currentSemester.value, 1).matched
  THEN <<firstFrom(words, currentSemester.value, 1).course>>
  ELSE IF firstFrom(words, currentSemester.value, 0).matched
  THEN <<firstFrom(words, currentSemester.value, 0).course>>
  ELSE << >>

\* The loop over coursePatterns: the first pattern with
\* courseMatch && currentSemester pushes its course.
coursesOnLine(words, currentSemester) ==
  IF ~truthy(currentSemester) THEN << >>
  ELSE IF firstFrom(words, currentSemester.value, 0).matched
  THEN <<firstFrom(words, currentSemester.value, 0).course>>
  ELSE IF firstFrom(words, currentSemester.value, 1).matched
  THEN <<firstFrom(words, currentSemester.value, 1).course>>
  ELSE IF firstFrom(words, currentSemester.value, 2).matched
  THEN <<firstFrom(words, currentSemester.value, 2).course>>
  ELSE << >>

\* Lines of a curriculum text, as words.
\* "Semester 1"
semesterOne ==
  << <<"S", "e", "m", "e", "s", "t", "e", "r">>,
     <<"1">> >>

\* "1st Semester"
firstSemester ==
  << <<"1", "s", "t">>,
     <<"S", "e", "m", "e", "s", "t", "e", "r">> >>

\* "2nd Semester"
secondSemester ==
  << <<"2", "n", "d">>,
     <<"S", "e", "m", "e", "s", "t", "e", "r">> >>

\* "Year 2"
yearTwo ==
  << <<"Y", "e", "a", "r">>,
     <<"2">> >>

\* "3 Fall"
threeFall ==
  << <<"3">>,
     <<"F", "a", "l", "l">> >>

\* "CS101 Programming 6"
programmingLine ==
  << <<"C", "S", "1", "0", "1">>,
     <<"P", "r", "o", "g", "r", "a", "m", "m", "i", "n", "g">>,
     <<"6">> >>

\* "CS201 Fundamentals 6"
fundamentalsLine ==
  << <<"C", "S", "2", "0", "1">>,
     <<"F", "u", "n", "d", "a", "m", "e", "n", "t", "a", "l", "s">>,
     <<"6">> >>

\* "CS102 Data Structures AC 3 0 2 4 CS101 6"
dataStructuresLine ==
  << <<"C", "S", "1", "0", "2">>,
     <<"D", "a", "t", "a">>,
     <<"S", "t", "r", "u", "c", "t", "u", "r", "e", "s">>,
     <<"A", "C">>,
     <<"3">>,
     <<"0">>,
     <<"2">>,
     <<"4">>,
     <<"C", "S", "1", "0", "1">>,
     <<"6">> >>

\* "SE301 Software 4 7 FC"
softwareLine ==
  << <<"S", "E", "3", "0", "1">>,
     <<"S", "o", "f", "t", "w", "a", "r", "e">>,
     <<"4">>,
     <<"7">>,
     <<"F", "C">> >>

\* "1 CS101 Programming 6"
numberedLine ==
  << <<"1">>,
     <<"C", "S", "1", "0", "1">>,
     <<"P", "r", "o", "g", "r", "a", "m", "m", "i", "n", "g">>,
     <<"6">> >>

CurriculumText ==
  {semesterOne, firstSemester, secondSemester, yearTwo, threeFall,
   programmingLine, fundamentalsLine, dataStructuresLine, softwareLine,
   numberedLine, << >>}

readingCurriculum(courses, currentSemester, text) ==
  [op |-> "parseCurriculum", curriculum |-> courses,
   currentSemester |-> currentSemester, text |-> text, read |-> Len(text),
   line |-> IF text = << >> THEN << >> ELSE text[Len(text)]]

\* const curriculum = []; let currentSemester = null
OpenCurriculum ==
  /\ pc = "constructed"
  /\ call' = readingCurriculum(<< >>, null, << >>)
  /\ pc' = "readingCurriculum"
  /\ UNCHANGED <<curriculum, completedCourses, availableCourses, studentInfo>>
  /\ UNCHANGED serverVars

\* One turn of for (const line of lines): the semester patterns, then the
\* course patterns.
ReadCurriculumLine ==
  /\ pc = "readingCurriculum"
  /\ call.read < MaxCurriculumLines
  /\ \E words \in CurriculumText :
       LET currentSemester == detectSemester(words, call.currentSemester)
       IN call' = readingCurriculum(
                    call.curriculum \o coursesOnLine(words, currentSemester),
                    currentSemester, Append(call.text, words))
  /\ UNCHANGED <<curriculum, completedCourses, availableCourses, studentInfo,
                 pc>>
  /\ UNCHANGED serverVars

\* this.curriculum = curriculum
CommitCurriculum ==
  /\ pc = "readingCurriculum"
  /\ curriculum' = call.curriculum
  /\ pc' = "curriculumParsed"
  /\ call' = [op |-> "parseCurriculum", text |-> call.text]
  /\ UNCHANGED <<completedCourses, availableCourses, studentInfo>>
  /\ UNCHANGED serverVars

\* The whole loop of parseCurriculum over a text.
RECURSIVE extract(_, _, _)
extract(text, courses, currentSemester) ==
  IF text = << >> THEN courses
  ELSE extract(Tail(text),
               courses \o
                 coursesOnLine(Head(text),
                               detectSemester(Head(text), currentSemester)),
               detectSemester(Head(text), currentSemester))

\* Variant: the courses are pushed to this.curriculum itself.
parsedCurriculumMerging(text) == extract(text, curriculum, null)

\* parseCurriculum from its fresh locals to the list it assigns.
parsedCurriculum(text) == extract(text, << >>, null)

\* Texts of a second parse, besides the text of the first one.
OtherTexts == {<< >>, <<programmingLine>>, <<yearTwo, programmingLine>>}

\* parseCurriculum called once more on the same session.
ParseCurriculumAgain ==
  /\ pc = "curriculumParsed"
  /\ call.op = "parseCurriculum"
  /\ "text" \in DOMAIN call
  /\ \E text \in {call.text} \cup OtherTexts :
       /\ curriculum' = parsedCurriculum(text)
       /\ call' = [op |-> "parseCurriculum", text |-> text,
                   previous |-> call.text]
  /\ pc' = "curriculumParsedAgain"
  /\ UNCHANGED <<completedCourses, availableCourses, studentInfo>>
  /\ UNCHANGED serverVars

CurriculumNext ==
  \/ OpenCurriculum
  \/ ReadCurriculumLine
  \/ CommitCurriculum
  \/ ParseCurriculumAgain

CurriculumSpec == Init /\ [][CurriculumNext]_vars

Next ==
  \/ NewSession
  \/ ParseCurriculum
  \/ ParseTranscript
  \/ ParseAvailableCourses
  \/ GetRecommendedCourses
  \/ GetRecommendedCoursesAgain
  \/ GetParsedDataAsJSON
  \/ GetCurrentSemester
  \/ ArePrerequisitesMet
  \/ GenerateProgressReport
  \/ IsPassingGrade

Spec == Init /\ [][Next]_vars

(***************************************************************************)
(* Vocabulary of the properties.  These definitions restate what the       *)
(* specification says in terms of the session's collections; they do not   *)
(* use the engine's operators they are compared with.                      *)
(***************************************************************************)
Buckets ==
  {"nextSemesterCourses", "availableElectives", "missedCourses",
   "futureRecommendations"}

Recommended == call.op = "getRecommendedCourses"

Range(seq) == {seq[i] : i \in 1..Len(seq)}

\* A bucket entry without the annotations of nextSemesterCourses.
Plain(entry) == [f \in DOMAIN entry \ {"priority", "reason"} |-> entry[f]]

CompletedKeys == {completedCourses[i][1] : i \in 1..Len(completedCourses)}

RecordOf(code) ==
  (CHOOSE pair \in Range(completedCourses) : pair[1] = code)[2]

PassingCodes == {code \in CompletedKeys : RecordOf(code).passed}

\* code is a passing code, or a passing code is code followed by one
\* uppercase letter.
CountsAsCompleted(code) ==
  \/ code \in PassingCodes
  \/ \E p \in PassingCodes :
       /\ Len(p) = Len(code) + 1
       /\ SubSeq(p, 1, Len(code)) = code
       /\ p[Len(p)] \in UpperLetters

AvailableCodes == {availableCourses[i].code : i \in 1..Len(availableCourses)}

AllPrerequisitesPassed(course) ==
  \A code \in Range(course.prerequisites) : code \in PassingCodes

RECURSIVE SumOfCredits(_)
SumOfCredits(codes) ==
  IF codes = {} THEN 0
  ELSE LET code == CHOOSE c \in codes : TRUE
       IN RecordOf(code).credits + SumOfCredits(codes \ {code})

Estimate == (SumOfCredits(PassingCodes) \div 20) + 1

CodesIn(bucket) ==
  {call.value[bucket][i].code : i \in 1..Len(call.value[bucket])}

NextSemester == call.value.nextSemesterCourses

\* C1: a curriculum course whose code is a passing completed code, or a
\* passing completed code with its one trailing uppercase letter removed, is
\* in none of the four buckets.
C1_CompletedExcluded ==
  Recommended =>
    \A i \in 1..Len(curriculum) :
      CountsAsCompleted(curriculum[i].code) =>
        \A b \in Buckets : curriculum[i].code \notin CodesIn(b)

\* PHYS121F is passing, PHYS121 is in the curriculum, available and without
\* prerequisites, and the recommendation has been computed.
C1_Witness ==
  /\ Recommended
  /\ PHYS121F \in PassingCodes
  /\ PHYS121 \notin CompletedKeys
  /\ PHYS121 \in AvailableCodes
  /\ \E i \in 1..Len(curriculum) : curriculum[i].code = PHYS121
  /\ \A b \in Buckets : PHYS121 \notin CodesIn(b)

\* C2: every course in a bucket is not completed, is offered, and has every
\* prerequisite passed.
C2_BucketsOnlyEligible ==
  Recommended =>
    \A b \in Buckets :
      \A i \in 1..Len(call.value[b]) :
        LET course == call.value[b][i]
        IN /\ ~CountsAsCompleted(course.code)
           /\ course.code \in AvailableCodes
           /\ AllPrerequisitesPassed(course)

\* A course with a prerequisite was recommended while another curriculum
\* course was left out because it is not offered.
C2_Witness ==
  /\ Recommended
  /\ \E b \in Buckets :
       \E i \in 1..Len(call.value[b]) :
         call.value[b][i].prerequisites # << >>
  /\ \E i \in 1..Len(curriculum) :
       /\ curriculum[i].code \notin AvailableCodes
       /\ ~CountsAsCompleted(curriculum[i].code)
       /\ AllPrerequisitesPassed(curriculum[i])

\* C3: arePrerequisitesMet(course) is true exactly when every prerequisite
\* code is a key of completedCourses whose record has passed = true.
C3_PrerequisitesMetIff ==
  call.op = "arePrerequisitesMet" =>
    (call.value <=>
       \A code \in Range(call.course.prerequisites) :
         code \in CompletedKeys /\ RecordOf(code).passed)

\* The prerequisite is in completedCourses but not passed, and the answer
\* is false.
C3_Witness ==
  /\ call.op = "arePrerequisitesMet"
  /\ call.course.prerequisites # << >>
  /\ \A code \in Range(call.course.prerequisites) : code \in CompletedKeys
  /\ call.value = FALSE

\* The bucket the specification gives an eligible course.
ExpectedBucket(course) ==
  IF \/ course.semester = Estimate
     \/ course.semester = Estimate + 1
     \/ (Estimate > 8 /\ course.semester <= 8)
     \/ (Estimate - 2 <= course.semester /\ course.semester <= Estimate + 2)
  THEN "nextSemesterCourses"
  ELSE IF course.category \in {"AE", "FE", "UE"} THEN "availableElectives"
  ELSE IF course.semester < Estimate THEN "missedCourses"
  ELSE "futureRecommendations"

Eligible(course) ==
  /\ ~CountsAsCompleted(course.code)
  /\ course.code \in AvailableCodes
  /\ AllPrerequisitesPassed(course)

\* C4: an eligible course goes to the first bucket whose rule it meets, in
\* the order nextSemester, electives, missed, future, and to no other.
C4_FirstMatchWins ==
  Recommended =>
    /\ \A b \in Buckets :
         \A i \in 1..Len(call.value[b]) :
           ExpectedBucket(call.value[b][i]) = b
    /\ \A i \in 1..Len(curriculum) :
         Eligible(curriculum[i]) =>
           \E j \in 1..Len(call.value[ExpectedBucket(curriculum[i])]) :
             Plain(call.value[ExpectedBucket(curriculum[i])][j])
               = curriculum[i]

\* An elective whose semester is within two of the estimate, but is neither
\* the estimate nor the one after it, sits in nextSemesterCourses.
C4_Witness ==
  /\ Recommended
  /\ \E i \in 1..Len(NextSemester) :
       /\ NextSemester[i].category = "UE"
       /\ NextSemester[i].semester = Estimate - 2

\* C5: no course code occurs in more than one bucket.
C5_BucketsDisjointByCode ==
  Recommended =>
    \A b1, b2 \in Buckets :
      b1 # b2 => CodesIn(b1) \cap CodesIn(b2) = {}

\* C6: getCurrentSemester is floor(T / 20) + 1, T the credits of the passing
\* records only; it is 1 with no passing record and never below 1.
C6_SemesterEstimate ==
  call.op = "getCurrentSemester" =>
    /\ call.value = (SumOfCredits(PassingCodes) \div 20) + 1
    /\ (PassingCodes = {} => call.value = 1)
    /\ call.value >= 1

\* A failed record with credits sits next to a passing one and only the
\* passing credits were counted.
C6_Witness ==
  /\ call.op = "getCurrentSemester"
  /\ \E code \in CompletedKeys :
       ~RecordOf(code).passed /\ RecordOf(code).credits >= 20
  /\ PassingCodes # {}
  /\ call.value = 9

\* Number of curriculum entries other than entry i that list its code.
OtherUnlocks(i) ==
  Cardinality({j \in (1..Len(curriculum)) \ {i} :
                 curriculum[i].code \in Range(curriculum[j].prerequisites)})

ExpectedPriority(i) ==
  LET course == curriculum[i]
  IN (CASE course.category = "AC" -> 10
        [] course.category = "FC" -> 8
        [] course.category = "UC" -> 6
        [] OTHER -> 0)
     + (IF course.semester = Estimate THEN 5 ELSE 0)
     + (IF course.semester = Estimate + 1 THEN 3 ELSE 0)
     + (IF Estimate > 8 /\ course.semester <= 8 THEN 4 ELSE 0)
     + (IF course.semester < Estimate /\ Estimate > 8 THEN -1 ELSE 0)
     + (IF course.semester < Estimate /\ Estimate <= 8 THEN -2 ELSE 0)
     + 2 * OtherUnlocks(i)

\* C7: the priority of a nextSemester entry is the sum of the category,
\* timing, high-semester and delay terms and 2 for each other curriculum
\* entry that lists its code as a prerequisite.
C7_PriorityFormula ==
  Recommended =>
    \A k \in 1..Len(NextSemester) :
      \E i \in 1..Len(curriculum) :
        /\ curriculum[i] = Plain(NextSemester[k])
        /\ NextSemester[k].priority = ExpectedPriority(i)

\* A delayed core course of a student past semester 8 that unlocks another
\* course: 10 + 4 - 1 + 2.
C7_Witness ==
  /\ Recommended
  /\ Estimate > 8
  /\ \E k \in 1..Len(NextSemester) :
       /\ NextSemester[k].category = "AC"
       /\ NextSemester[k].semester <= 8
       /\ NextSemester[k].priority = 15

\* The curriculum entries that end up in nextSemesterCourses with priority p,
\* in curriculum order.
ExpectedTier(p) ==
  LET idx == {i \in 1..Len(curriculum) :
                /\ Eligible(curriculum[i])
                /\ ExpectedBucket(curriculum[i]) = "nextSemesterCourses"
                /\ ExpectedPriority(i) = p}
      RECURSIVE Pick(_)
      Pick(i) ==
        IF i > Len(curriculum) THEN << >>
        ELSE IF i \in idx THEN <<curriculum[i]>> \o Pick(i + 1)
        ELSE Pick(i + 1)
  IN Pick(1)

TierOf(p) ==
  LET RECURSIVE Pick(_)
      Pick(k) ==
        IF k > Len(NextSemester) THEN << >>
        ELSE IF NextSemester[k].priority = p
             THEN <<Plain(NextSemester[k])>> \o Pick(k + 1)
             ELSE Pick(k + 1)
  IN Pick(1)

\* C8: nextSemesterCourses is in non-increasing priority order and entries
\* of equal priority keep the order of their curriculum entries.
C8_SortedStable ==
  Recommended =>
    /\ \A k \in 1..(Len(NextSemester) - 1) :
         NextSemester[k].priority >= NextSemester[k + 1].priority
    /\ \A k \in 1..Len(NextSemester) :
         TierOf(NextSemester[k].priority)
           = ExpectedTier(NextSemester[k].priority)

\* Two different courses tie on priority.
C8_Witness ==
  /\ Recommended
  /\ \E k \in 1..(Len(NextSemester) - 1) :
       /\ NextSemester[k].priority = NextSemester[k + 1].priority
       /\ NextSemester[k].code # NextSemester[k + 1].code

\* C9: of two nextSemester entries that differ only in category, one Area
\* Core and one elective, the Area Core entry comes first.
C9_AreaCoreBeforeElective ==
  Recommended =>
    \A k, l \in 1..Len(NextSemester) :
      ( /\ NextSemester[k].category = "AC"
        /\ NextSemester[l].category \in {"UE", "AE", "FE"}
        /\ [Plain(NextSemester[k]) EXCEPT !.category = ""]
             = [Plain(NextSemester[l]) EXCEPT !.category = ""] )
      => k < l

\* The elective comes first in the curriculum and second in the result.
C9_Witness ==
  /\ Recommended
  /\ Len(curriculum) >= 2
  /\ curriculum[1].category = "UE"
  /\ curriculum[2] = [curriculum[1] EXCEPT !.category = "AC"]
  /\ Len(NextSemester) >= 2
  /\ Plain(NextSemester[1]) = curriculum[2]
  /\ Plain(NextSemester[2]) = curriculum[1]

\* Fragments joined with ", ".
RECURSIVE CommaJoined(_)
CommaJoined(parts) ==
  IF parts = << >> THEN ""
  ELSE IF Len(parts) = 1 THEN parts[1]
  ELSE CommaJoined(SubSeq(parts, 1, Len(parts) - 1))
         \o ", " \o parts[Len(parts)]

Listing(course) ==
  Cardinality({j \in 1..Len(curriculum) :
                 course.code \in Range(curriculum[j].prerequisites)})

CategoryFragment(course) ==
  IF course.category = "AC" THEN <<"Area Core requirement">>
  ELSE IF course.category = "FC" THEN <<"Faculty Core requirement">>
  ELSE << >>

UnlockFragment(course) ==
  IF Listing(course) > 0
  THEN <<"Prerequisite for " \o ToString(Listing(course))
           \o " other courses">>
  ELSE << >>

\* The timing fragments whose condition the course meets.
TimingFragments(course) ==
  {t \in {"Current semester course", "Next semester course",
          "Delayed from previous semester"} :
     \/ t = "Current semester course" /\ course.semester = Estimate
     \/ t = "Next semester course" /\ course.semester = Estimate + 1
     \/ t = "Delayed from previous semester" /\ course.semester < Estimate}

ScenarioState ==
  /\ Len(curriculum) = 2
  /\ curriculum[1].code = CS101 /\ curriculum[1].semester = 1
  /\ curriculum[1].prerequisites = << >>
  /\ curriculum[2].code = CS102 /\ curriculum[2].semester = 2
  /\ curriculum[2].prerequisites = <<CS101>>
  /\ curriculum[2].category = "AC"
  /\ CompletedKeys = {CS101}
  /\ RecordOf(CS101).passed /\ RecordOf(CS101).credits = 6
  /\ AvailableCodes = {CS102}

Scenario ==
  ScenarioState =>
    \E k \in 1..Len(NextSemester) :
      /\ NextSemester[k].code = CS102
      /\ NextSemester[k].reason
           = "Next semester course, Area Core requirement"

\* C10 as stated: the reason of every nextSemester entry holds exactly one
\* timing fragment, then the category fragment, then the unlock fragment.
C10_ExactlyOneTimingFragment ==
  Recommended =>
    /\ \A k \in 1..Len(NextSemester) :
         \E t \in TimingFragments(NextSemester[k]) :
           NextSemester[k].reason
             = CommaJoined(<<t>> \o CategoryFragment(NextSemester[k])
                               \o UnlockFragment(NextSemester[k]))
    /\ Scenario

\* C10 amended: the reason holds the timing fragment of the course when one
\* applies and none when its semester is after estimate + 1, then the
\* category fragment, then the unlock fragment; in the scenario CS102 is a
\* nextSemester entry whose reason starts with 'Next semester course'.
C10_AtMostOneTimingFragment ==
  Recommended =>
    /\ \A k \in 1..Len(NextSemester) :
         LET course == NextSemester[k]
             timing == IF TimingFragments(course) = {} THEN << >>
                       ELSE <<CHOOSE t \in TimingFragments(course) : TRUE>>
         IN /\ Cardinality(TimingFragments(course)) <= 1
            /\ (TimingFragments(course) = {}
                  <=> course.semester > Estimate + 1)
            /\ course.reason
                 = CommaJoined(timing \o CategoryFragment(course)
                                      \o UnlockFragment(course))
    /\ Scenario

\* The scenario has been run and CS102 carries the reason of a course of the
\* semester after the estimate.
C10_Witness ==
  /\ Recommended
  /\ ScenarioState
  /\ \E k \in 1..Len(NextSemester) :
       NextSemester[k].reason = "Next semester course, Area Core requirement"

Reported == call.op = "generateProgressReport"

\* C11: with an empty curriculum the report's completionPercentage is the
\* number 0, whatever completedCourses holds.
C11_EmptyCurriculumPercentageZero ==
  (Reported /\ curriculum = << >>) =>
    call.value.completionPercentage = Finite(0)

\* The retake marker "(rst)" occurs in the token.
HasRetakeMarker(grade) ==
  \E i \in 1..Len(grade) :
    /\ i + 4 <= Len(grade)
    /\ grade[i] = "(" /\ grade[i + 1] = "r" /\ grade[i + 2] = "s"
    /\ grade[i + 3] = "t" /\ grade[i + 4] = ")"

\* C17: isPassingGrade is false for F, F*, FF, FD, W and for every token
\* holding the retake marker, and true for every other token.
C17_GradeClosedWorld ==
  call.op = "isPassingGrade" =>
    (call.value <=>
       ~(\/ call.grade \in {<<"F">>, <<"F", "*">>, <<"F", "F">>,
                            <<"F", "D">>, <<"W">>}
         \/ HasRetakeMarker(call.grade)))

\* A letter grade that would pass is failed by its retake marker.
C17_Witness ==
  /\ call.op = "isPassingGrade"
  /\ call.grade = <<"A", "(", "r", "s", "t", ")">>
  /\ call.value = FALSE

EntriesOf(category) ==
  {i \in 1..Len(curriculum) : curriculum[i].category = category}

RECURSIVE SumRequired(_)
SumRequired(categories) ==
  IF categories = {} THEN 0
  ELSE LET k == CHOOSE c \in categories : TRUE
       IN call.value.categoryStats[k].required
            + SumRequired(categories \ {k})

\* C18: per category, required counts the curriculum entries of the category
\* (duplicates each time) and completed those whose code is a passing key;
\* completed <= required and the required counts add up to
\* totalRequiredCourses.
C18_CategoryStats ==
  Reported =>
    LET stats == call.value.categoryStats
    IN /\ DOMAIN stats = {curriculum[i].category : i \in 1..Len(curriculum)}
       /\ \A k \in DOMAIN stats :
            /\ stats[k].required = Cardinality(EntriesOf(k))
            /\ stats[k].completed
                 = Cardinality({i \in EntriesOf(k) :
                                  curriculum[i].code \in PassingCodes})
            /\ stats[k].completed <= stats[k].required
       /\ SumRequired(DOMAIN stats) = call.value.totalRequiredCourses

\* A category holds the same code twice, it is counted twice as required,
\* and a course that was failed is not counted as completed.
C18_Witness ==
  /\ Reported
  /\ \E k \in DOMAIN call.value.categoryStats :
       /\ call.value.categoryStats[k].required = 2
       /\ call.value.categoryStats[k].completed = 0
       /\ \A i \in EntriesOf(k) :
            curriculum[i].code \in CompletedKeys \ PassingCodes
       /\ \A i, j \in EntriesOf(k) : curriculum[i].code = curriculum[j].code


(***************************************************************************)
(* Claims about the server: ServerSpec.                                    *)
(***************************************************************************)
RecommendingCalls == {"loadAndRecommend", "processDocuments"}

\* C12: a recommending call (loadAndRecommend, processDocuments) on a session
\* whose curriculum is empty does not return success = true; the missing
\* input is surfaced as a failure.
C12_MissingInputSurfaced ==
  (/\ pc = "returned"
   /\ call.op \in RecommendingCalls
   /\ curriculum = << >>)
  => ~call.success

\* C13: a parse call is all-or-nothing on the session: when one of its three
\* parse steps has failed, the four collections of the session are what they
\* were before the call, which for the session of a request is empty.
C13_ParseAllOrNothing ==
  (/\ pc = "returned"
   /\ call.op \in ParseMethods
   /\ ~call.success)
  => sessionInHand = emptySession

LoadingCalls == {"loadAndRecommend", "getParsedData"}

Loaded == pc = "returned" /\ call.op \in LoadingCalls /\ call.success

\* A step in which a fresh session loads the persisted record.
Loads ==
  /\ pc = "constructed"
  /\ pc' = "returned"
  /\ call'.op \in LoadingCalls
  /\ call'.success

TriesToLoad ==
  /\ pc = "constructed"
  /\ pc' = "returned"
  /\ call'.op \in LoadingCalls

\* C15: a load succeeds only on a record that a completed save has written.
\* Without a record, loadAndRecommend returns success = false with an error
\* message and no recommendations, the session's collections stay empty, and
\* the parsed-data route answers 404.
C15_LoadNeedsRecord ==
  [][TriesToLoad =>
       /\ call'.success => parsedDataFile.exists /\ parsedDataFile.complete
       /\ ~parsedDataFile.exists =>
            /\ ~call'.success
            /\ "recommendations" \notin DOMAIN call'
            /\ "data" \notin DOMAIN call'
            /\ curriculum' = << >>
            /\ completedCourses' = << >>
            /\ availableCourses' = << >>
            /\ studentInfo' = << >>
            /\ (call'.op = "loadAndRecommend" => "error" \in DOMAIN call')
            /\ (call'.op = "getParsedData" => call'.status = 404)]_vars

\* loadAndRecommend has failed while no record exists.
C15_Witness ==
  /\ pc = "returned"
  /\ call.op = "loadAndRecommend"
  /\ ~call.success
  /\ call.error = "Failed to load parsed data from JSON"
  /\ ~parsedDataFile.exists

\* A step of the request in hand, and a step of the second request.
StepInHand == pc' # pc \/ call' # call

StepOfOther == otherSession' # otherSession

\* C16: sessions are isolated: a step of one request changes none of the four
\* in-memory collections of the session of the other request.
C16_SessionsIsolated ==
  [][/\ StepOfOther =>
          /\ curriculum' = curriculum
          /\ completedCourses' = completedCourses
          /\ availableCourses' = availableCourses
          /\ studentInfo' = studentInfo
     /\ StepInHand =>
          /\ otherSession'.curriculum = otherSession.curriculum
          /\ otherSession'.completedCourses = otherSession.completedCourses
          /\ otherSession'.availableCourses = otherSession.availableCourses
          /\ otherSession'.studentInfo = otherSession.studentInfo]_vars

\* Two parse calls are under way at once, and their sessions hold different
\* curricula and different completed courses.
C16_Witness ==
  /\ pc = "transcriptParsed"
  /\ otherSession.pc = "transcriptParsed"
  /\ Len(curriculum) = 2
  /\ Len(otherSession.curriculum) = 1
  /\ Len(completedCourses) = 0
  /\ Len(otherSession.completedCourses) = 2

(***************************************************************************)
(* Claims about the transcript reader: TranscriptSpec.                     *)
(***************************************************************************)
\* The grade evaluator's verdict, from the grade alone.
PassesByGrade(grade) ==
  /\ grade \notin {<<"F">>, <<"F", "*">>, <<"F", "F">>, <<"F", "D">>, <<"W">>}
  /\ ~HasRetakeMarker(grade)

RecordsIn(m) == {m[i][2] : i \in 1..Len(m)}

\* The records made so far: those of the session and those of the map that
\* parseTranscript is filling.
RecordsMade ==
  RecordsIn(completedCourses) \cup
  (IF pc = "readingTranscript" THEN RecordsIn(call.completedCourses) ELSE {})

PassedValues(m) == [i \in 1..Len(m) |-> <<m[i][1], m[i][2].passed>>]

\* C19: every record parseTranscript makes, from a row or from a line matched
\* by any of the patterns, has passed = isPassingGrade(grade); and once the
\* transcript is parsed, no operation on the session changes the passed value
\* of a record.
C19_PassedDerivedOnce ==
  /\ [](\A r \in RecordsMade : r.passed = PassesByGrade(r.grade))
  /\ [][pc = "transcriptParsed" =>
          PassedValues(completedCourses') = PassedValues(completedCourses)]_vars

\* A parsed transcript with a record whose grade defaulted to P and a failed
\* record whose grade came off the end of the code, after the report was
\* made and the data saved.
C19_Witness ==
  /\ pc = "transcriptParsed"
  /\ call.op = "generateProgressReport"
  /\ parsedDataFile.exists
  /\ \E r \in RecordsIn(completedCourses) :
       r.grade = <<"P">> /\ r.passed /\ r.code = CS101
  /\ \E r \in RecordsIn(completedCourses) :
       r.grade = <<"F">> /\ ~r.passed /\ r.code = PHYS121

(***************************************************************************)
(* Claims about the curriculum reader: CurriculumSpec.                     *)
(***************************************************************************)
IsWord(w, text) == toLowerCase(w) = text

IsOrdinal(w) ==
  /\ leadingDigits(w) # << >>
  /\ toLowerCase(SubSeq(w, Len(leadingDigits(w)) + 1, Len(w)))
       \in {<<"s", "t">>, <<"n", "d">>, <<"r", "d">>, <<"t", "h">>}

SemesterWord == <<"s", "e", "m", "e", "s", "t", "e", "r">>

\* The four semester markers: a leading integer, "semester N", an ordinal
\* followed by "semester", "year N".
IsSemesterMarker(words) ==
  \/ Len(words) >= 2 /\ isDigits(words[1])
  \/ \E k \in 1..(Len(words) - 1) :
       IsWord(words[k], SemesterWord) /\ isDigits(words[k + 1])
  \/ Len(words) >= 2 /\ IsOrdinal(words[1]) /\ IsWord(words[2], SemesterWord)
  \/ /\ Len(words) >= 2
     /\ IsWord(words[1], <<"y", "e", "a", "r">>)
     /\ isDigits(words[2])

\* A line that gives a course: a code, a title and a number.
IsCourseLine(words) ==
  /\ Len(words) >= 3
  /\ codeIn(words[1], FALSE) = words[1]
  /\ \E j \in 3..Len(words) : isDigits(words[j])

\* A step of the loop that reads one more line.
ReadsLine ==
  /\ pc = "readingCurriculum"
  /\ pc' = "readingCurriculum"
  /\ call'.read = call.read + 1

\* C20: a line that is none of the four semester markers leaves
\* currentSemester as it was; if a semester was established before it and
\* the line is a course line, its course is extracted with that semester.
\* This covers course lines whose title holds the letters "nd" or "rd".
C20_NoMarkerKeepsSemester ==
  [][(ReadsLine /\ ~IsSemesterMarker(call'.line)) =>
       /\ call'.currentSemester = call.currentSemester
       /\ (/\ call.currentSemester.kind = "finite"
           /\ call.currentSemester.value >= 1
           /\ IsCourseLine(call'.line))
          => /\ Len(call'.curriculum) = Len(call.curriculum) + 1
             /\ call'.curriculum[Len(call'.curriculum)].semester =
                  call.currentSemester.value]_vars

\* A semester context: an integer of at least 1.
Established(semester) == semester.kind = "finite" /\ semester.value >= 1

\* The course patterns, of P0, P1, P2, that match a line.
PatternsMatching(words) == {i \in 0..2 : firstFrom(words, 1, i).matched}

\* The records one more line has added.
Added ==
  SubSeq(call'.curriculum, Len(call.curriculum) + 1, Len(call'.curriculum))

\* C21, as stated: a line yields no record if no semester context has been
\* established before it.
C21_NoRecordWithoutEarlierSemester ==
  [][(ReadsLine /\ ~Established(call.currentSemester)) =>
       Len(call'.curriculum) = Len(call.curriculum)]_vars

\* C21: a line adds at most one record, after the records of the lines before
\* it, which stay as they are (duplicate codes included); it adds one exactly
\* when one of P0, P1, P2 matches and a semester context is established
\* before the line or by the line itself; the record is that of the first
\* pattern that matches, with the semester context as its semester; every
\* record has an integer semester of at least 1.
C21_OneRecordPerLine ==
  [][ReadsLine =>
       /\ Len(call'.curriculum) >= Len(call.curriculum)
       /\ SubSeq(call'.curriculum, 1, Len(call.curriculum)) = call.curriculum
       /\ Len(Added) <= 1
       /\ (Len(Added) = 1 <=>
             /\ PatternsMatching(call'.line) # {}
             /\ Established(call'.currentSemester))
       /\ (Len(Added) = 1 =>
             Added[1] =
               firstFrom(call'.line, call'.currentSemester.value,
                         CHOOSE i \in PatternsMatching(call'.line) :
                           \A j \in PatternsMatching(call'.line) : i <= j
                        ).course)
       /\ \A i \in 1..Len(call'.curriculum) :
            /\ call'.curriculum[i].semester \in Nat
            /\ call'.curriculum[i].semester >= 1]_vars

\* Two lines with the same code have given two records, both by P0 although
\* P2 matches the lines as well.
C21_Witness ==
  /\ pc = "readingCurriculum"
  /\ Len(call.curriculum) = 2
  /\ call.curriculum[1].code = CS102
  /\ call.curriculum[2].code = CS102
  /\ call.curriculum[1].category = <<"A", "C">>
  /\ call.curriculum[2].prerequisites = <<CS101>>
  /\ PatternsMatching(call.line) = {0, 2}

\* A step in which a session that has parsed a text parses one again.
ParsesAgain == pc = "curriculumParsed" /\ pc' = "curriculumParsedAgain"

\* C22: parsing the text of the first parse again leaves this.curriculum as
\* the first parse left it; whatever the session held and wherever the first
\* parse ended, the second parse gives what its text gives alone: nothing for
\* no line and for a course line without a marker, the one course of
\* semester 2 for "Year 2" followed by a course line.
C22_ParseReplaces ==
  [][ParsesAgain =>
       /\ call'.text = call.text => curriculum' = curriculum
       /\ call'.text = << >> => curriculum' = << >>
       /\ call'.text = <<programmingLine>> => curriculum' = << >>
       /\ call'.text = <<yearTwo, programmingLine>> =>
            /\ Len(curriculum') = 1
            /\ curriculum'[1].code = CS101
            /\ curriculum'[1].semester = 2]_vars

\* A text with two course lines has been parsed twice over, and the session
\* holds its two courses.
C22_Witness ==
  /\ pc = "curriculumParsedAgain"
  /\ call.text = call.previous
  /\ Len(call.text) = 3
  /\ Len(curriculum) = 2
  /\ curriculum[1].code # curriculum[2].code

\* The lines (or rows) so far that gave a record with this code.
LinesOf(code) == {i \in 1..Len(call.made) : call.made[i].code = code}

\* C23: the map parseTranscript fills holds one record for each code that a
\* line or row has given and none else, and the record of a code is the one
\* of the last line that gave it; so a passing line after a failing one for
\* the same code leaves passed = true, and a failing one after a passing one
\* leaves passed = false.
C23_LastWriteWins ==
  pc = "readingTranscript" =>
    LET map == call.completedCourses
    IN /\ \A i, j \in 1..Len(map) : map[i][1] = map[j][1] => i = j
       /\ \A i \in 1..Len(map) : LinesOf(map[i][1]) # {}
       /\ \A n \in 1..Len(call.made) :
            \E i \in 1..Len(map) :
              /\ map[i][1] = call.made[n].code
              /\ map[i][2] =
                   call.made[CHOOSE last \in LinesOf(call.made[n].code) :
                               \A l \in LinesOf(call.made[n].code) : l <= last]

\* CS101 was failed on one line and passed on a later one: the map holds the
\* passing record alone.
C23_Witness ==
  /\ pc = "readingTranscript"
  /\ Len(call.made) = 2
  /\ call.made[1].code = CS101 /\ ~call.made[1].passed
  /\ call.made[2].code = CS101 /\ call.made[2].passed
  /\ Len(call.completedCourses) = 1
  /\ call.completedCourses[1][2].passed

(***************************************************************************)
(* Claims about the parsed collections and the engine: Spec.               *)
(***************************************************************************)
\* C24: after parseAvailableCourses no two entries of availableCourses have
\* the same code.
C24_AvailableKeyedByCode ==
  \A i, j \in 1..Len(availableCourses) :
    availableCourses[i].code = availableCourses[j].code => i = j

(***************************************************************************)
(* More claims about the server: ServerSpec.                               *)
(***************************************************************************)
CallingMethods ==
  {"processDocuments", "parseAndSaveDocuments", "loadAndRecommend"}

\* A step in which one of the three methods comes upon a failure.
Fails ==
  /\ call' # call
  /\ call'.op \in CallingMethods
  /\ "success" \in DOMAIN call'
  /\ ~call'.success

\* C25: processDocuments, parseAndSaveDocuments and loadAndRecommend hand
\* every outcome to the caller as a result (the route answers 200, never the
\* 500 of a rejected call); a failure is a result with success = false and an
\* error message and nothing else, and the step that failed ends the call:
\* nothing is tried again.
C25_FailuresAreResults ==
  /\ []((pc = "returned" /\ call.op \in CallingMethods) =>
          /\ call.status = 200
          /\ call.success \in BOOLEAN
          /\ ~call.success =>
               DOMAIN call = {"op", "status", "success", "error"})
  /\ [][Fails => pc' = "returned"]_vars

\* parseAndSaveDocuments has parsed the three documents and failed to write.
C25_Witness ==
  /\ pc = "returned"
  /\ call.op = "parseAndSaveDocuments"
  /\ ~call.success
  /\ call.error = "writeFile"
  /\ curriculum # << >>

\* How far a parse-and-save call has come: nothing parsed, the curriculum,
\* the transcript, the available courses, the file opened.
Progress ==
  CASE pc = "constructed" -> 0
    [] pc = "curriculumParsed" -> 1
    [] pc = "transcriptParsed" -> 2
    [] pc = "availableParsed" -> 3
    [] pc = "writing" -> 4
    [] OTHER -> 5

\* A step of parseAndSaveDocuments in the session in hand.
SavingStep ==
  /\ StepInHand
  /\ call'.op = "parseAndSaveDocuments"

\* C26: parseAndSaveDocuments parses the curriculum, then the transcript,
\* then the available courses, and only then writes the record; a step of it
\* that fails in a parser leaves the record as it was; a request without its
\* three files is answered 400 with nothing parsed and nothing written.
C26_SaveAfterAllParsed ==
  [][/\ SavingStep =>
          /\ pc' = "returned" \/ Progress' = Progress + 1
          /\ curriculum' # curriculum => Progress = 0
          /\ completedCourses' # completedCourses => Progress = 1
          /\ availableCourses' # availableCourses => Progress = 2
          /\ parsedDataFile' # parsedDataFile => Progress >= 3
          /\ (Fails /\ Progress < 3) => parsedDataFile' = parsedDataFile
     /\ (StepInHand /\ "status" \in DOMAIN call' /\ call'.status = 400) =>
          /\ sessionInHand' = emptySession
          /\ parsedDataFile' = parsedDataFile
          /\ pc = "constructed"]_vars

\* A parse-and-save call has failed in the transcript, and the record saved
\* before it is still there.
C26_Witness ==
  /\ pc = "returned"
  /\ call.op = "parseAndSaveDocuments"
  /\ ~call.success
  /\ call.error = "transcript"
  /\ curriculum # << >>
  /\ otherSession.pc = "idle"
  /\ parsedDataFile.exists
  /\ parsedDataFile.complete
  /\ parsedDataFile.data.curriculum # << >>
  /\ parsedDataFile.data.curriculum # curriculum

\* C27: with sessions saving at the same time, the persisted record, whenever
\* no save is at its writing, is the whole record of one saveParsedData call.
C27_RecordOfOneSave ==
  (/\ parsedDataFile.exists
   /\ pc # "writing"
   /\ otherSession.pc # "writing")
  => /\ parsedDataFile.complete
     /\ \E session \in {savedSession, sessionInHand,
                        collectionsOf(otherSession)} :
          /\ parsedDataFile.data.curriculum = session.curriculum
          /\ parsedDataFile.data.completedCourses =
               [i \in 1..Len(session.completedCourses) |->
                  session.completedCourses[i]]
          /\ parsedDataFile.data.availableCourses = session.availableCourses
          /\ parsedDataFile.data.studentInfo = session.studentInfo

Queries ==
  {"getRecommendedCourses", "generateProgressReport", "getParsedDataAsJSON"}

Annotations == {"priority", "reason"}

Queried == call'.op \in Queries /\ (pc' # pc \/ call' # call)

PlainBuckets ==
  {"availableElectives", "missedCourses", "futureRecommendations"}

\* C28: getRecommendedCourses, generateProgressReport and getParsedDataAsJSON
\* leave curriculum, completedCourses, availableCourses and studentInfo as
\* they were; no curriculum entry ever carries priority or reason; asking for
\* the recommendations again returns the same buckets; and in the buckets
\* priority and reason are on the nextSemesterCourses entries only.
C28_QueriesLeaveSession ==
  /\ [][Queried => UNCHANGED <<curriculum, completedCourses,
                               availableCourses, studentInfo>>]_vars
  /\ [](\A i \in 1..Len(curriculum) :
          DOMAIN curriculum[i] \cap Annotations = {})
  /\ [](call.op = "getRecommendedCourses" =>
          /\ call.value = getRecommendedCourses
          /\ "previous" \in DOMAIN call => call.value = call.previous
          /\ \A i \in 1..Len(call.value.nextSemesterCourses) :
               Annotations \subseteq DOMAIN call.value.nextSemesterCourses[i]
          /\ \A bucket \in PlainBuckets :
               \A i \in 1..Len(call.value[bucket]) :
                 DOMAIN call.value[bucket][i] \cap Annotations = {})

C28_Witness ==
  /\ call.op = "getRecommendedCourses"
  /\ "previous" \in DOMAIN call
  /\ call.value.nextSemesterCourses # << >>
  /\ call.value.availableElectives # << >>
  /\ completedCourses # EmptyMap

\* C29: when getRecommendedCourses leaves a curriculum course out as
\* completed (its code is a passing code or the base code of one),
\* arePrerequisitesMet is true of every course whose only prerequisite is
\* that course's code.
C29_CompletionJudgedAlike ==
  (/\ call.op = "arePrerequisitesMet"
   /\ Len(call.course.prerequisites) = 1
   /\ \E i \in 1..Len(curriculum) :
        /\ curriculum[i].code = call.course.prerequisites[1]
        /\ isCompleted(curriculum[i]))
  => call.value = TRUE

\* C30: with a non-empty curriculum, generateProgressReport gives a
\* completionPercentage that is an integer from 0 to 100 and a completedCourses
\* count of at most totalRequiredCourses, also when passed courses are not in
\* the curriculum.
C30_PercentageWithinHundred ==
  (call.op = "generateProgressReport" /\ curriculum # << >>)
  => /\ call.value.completionPercentage.kind = "finite"
     /\ call.value.completionPercentage.value \in 0..100
     /\ call.value.completedCourses <= call.value.totalRequiredCourses

====
